---- MODULE Spec2Model ----
(***************************************************************************)
(* Model of the protosuit-engine ESP32 firmware core: the framed,          *)
(* checksummed host link (mqtt_bridge.cpp), the newline-framed companion   *)
(* link (teensy_comm.cpp), the parameter registry and menu mirror, the     *)
(* message router and the LED animation target (led_strips.cpp).           *)
(*                                                                         *)
(* Strings are sequences of byte values (1..255); Arduino String indices   *)
(* are 0-based in the source and are kept 0-based in the helper operators. *)
(***************************************************************************)
EXTENDS Integers, Sequences, FiniteSets, TLC

\* ------------------------------------------------------------------------
\* Protocol characters (config.h) and the other characters the code names.
\* ------------------------------------------------------------------------
MSG_FROM_PI == 62
MSG_TO_PI == 60
MSG_SEPARATOR == 9
MSG_CRC_DELIM == 42
CH_NEWLINE == 10
CH_RETURN == 13
CH_EQUALS == 61
CH_SPACE == 32
INPUT_BUFFER_CAP == 512
PI_TIMEOUT == 5000
MAX_BRIGHTNESS == 150

\* ------------------------------------------------------------------------
\* CRC-8/SMBUS (mqtt_bridge.cpp:35-61)
\* ------------------------------------------------------------------------
crc8Table == <<
      0,  7, 14,  9, 28, 27, 18, 21, 56, 63, 54, 49, 36, 35, 42, 45,
    112,119,126,121,108,107, 98,101, 72, 79, 70, 65, 84, 83, 90, 93,
    224,231,238,233,252,251,242,245,216,223,214,209,196,195,202,205,
    144,151,158,153,140,139,130,133,168,175,166,161,180,179,186,189,
    199,192,201,206,219,220,213,210,255,248,241,246,227,228,237,234,
    183,176,185,190,171,172,165,162,143,136,129,134,147,148,157,154,
     39, 32, 41, 46, 59, 60, 53, 50, 31, 24, 17, 22,  3,  4, 13, 10,
     87, 80, 89, 94, 75, 76, 69, 66,111,104, 97,102,115,116,125,122,
    137,142,135,128,149,146,155,156,177,182,191,184,173,170,163,164,
    249,254,247,240,229,226,235,236,193,198,207,200,221,218,211,212,
    105,110,103, 96,117,114,123,124, 81, 86, 95, 88, 77, 74, 67, 68,
     25, 30, 23, 16,  5,  2, 11, 12, 33, 38, 47, 40, 61, 58, 51, 52,
     78, 73, 64, 71, 82, 85, 92, 91,118,113,120,127,106,109,100, 99,
     62, 57, 48, 55, 34, 37, 44, 43,  6,  1,  8, 15, 26, 29, 20, 19,
    174,169,160,167,178,181,188,187,150,145,152,159,138,141,132,131,
    222,217,208,215,194,197,204,203,230,225,232,239,250,253,244,243
>>

RECURSIVE BitXor(_, _)
BitXor(a, b) ==
    IF a = 0 THEN b
    ELSE IF b = 0 THEN a
    ELSE (((a % 2) + (b % 2)) % 2) + 2 * BitXor(a \div 2, b \div 2)

\* a table lookup that forgets the checksum so far
crc8StepPlain(crc, byte) == crc8Table[byte + 1]

\* the loop body for one byte
crc8Step(crc, byte) == crc8Table[BitXor(crc, byte) + 1]

\* the loop over data[lo..hi] in order, evaluated by halves; crc is a
\* uint8_t throughout
RECURSIVE crc8Loop(_, _, _, _)
crc8Loop(crc, data, lo, hi) ==
    IF lo > hi THEN crc
    ELSE IF lo = hi THEN crc8Step(crc, data[lo])
    ELSE LET mid == (lo + hi) \div 2
             left == crc8Loop(crc, data, lo, mid)
         IN  IF left \in 0..255 THEN crc8Loop(left, data, mid + 1, hi) ELSE left

\* a checksum that leaves the last byte out
crc8Short(data) == crc8Loop(0, data, 1, Len(data) - 1)

crc8(data) == crc8Loop(0, data, 1, Len(data))

\* "0123456789abcdef"
hexCharsLower == <<48, 49, 50, 51, 52, 53, 54, 55, 56, 57, 97, 98, 99, 100, 101, 102>>

\* "0123456789ABCDEF"
hexChars == <<48, 49, 50, 51, 52, 53, 54, 55, 56, 57, 65, 66, 67, 68, 69, 70>>

\* ------------------------------------------------------------------------
\* Arduino String / libc helpers, as the code uses them (0-based indices).
\* ------------------------------------------------------------------------
SetMin(S) == CHOOSE x \in S : \A y \in S : x <= y
SetMax(S) == CHOOSE x \in S : \A y \in S : x >= y

\* String::indexOf(ch): the first position of ch, -1 when there is none
indexOf(s, ch) ==
    LET at == {i \in 1..Len(s) : s[i] = ch}
    IN  IF at = {} THEN -1 ELSE SetMin(at) - 1

\* a scan that stops at the first occurrence
firstIndexOf(s, ch) == indexOf(s, ch)

\* String::lastIndexOf(ch): the last position of ch, -1 when there is none
lastIndexOf(s, ch) ==
    LET at == {i \in 1..Len(s) : s[i] = ch}
    IN  IF at = {} THEN -1 ELSE SetMax(at) - 1

\* String::substring(from) and String::substring(from, to)
substringFrom(s, from) == SubSeq(s, from + 1, Len(s))
substring(s, from, to) == SubSeq(s, from + 1, to)

startsWith(s, prefix) ==
    /\ Len(prefix) <= Len(s)
    /\ SubSeq(s, 1, Len(prefix)) = prefix

\* isspace(): space, \t, \n, \v, \f, \r
isSpace(c) == c = 32 \/ (c >= 9 /\ c <= 13)
isDigit(c) == c >= 48 /\ c <= 57

toUpperChar(c) == IF c >= 97 /\ c <= 122 THEN c - 32 ELSE c
toUpperCase(s) == [i \in 1..Len(s) |-> toUpperChar(s[i])]

\* s without its leading white space
trimLeft(s) ==
    LET solid == {i \in 1..Len(s) : ~isSpace(s[i])}
    IN  IF solid = {} THEN <<>> ELSE SubSeq(s, SetMin(solid), Len(s))

\* s without its trailing white space
trimRight(s) ==
    LET solid == {i \in 1..Len(s) : ~isSpace(s[i])}
    IN  IF solid = {} THEN <<>> ELSE SubSeq(s, 1, SetMax(solid))

trim(s) == trimRight(trimLeft(s))

\* value of a hexadecimal digit, -1 when the character is none
hexValue(c) ==
    IF c >= 48 /\ c <= 57 THEN c - 48
    ELSE IF c >= 65 /\ c <= 70 THEN c - 55
    ELSE IF c >= 97 /\ c <= 102 THEN c - 87
    ELSE -1

\* the longest head of s whose characters are all in the set allowed
headRun(s, allowed) ==
    LET bad == {i \in 1..Len(s) : s[i] \notin allowed}
    IN  IF bad = {} THEN s ELSE SubSeq(s, 1, SetMin(bad) - 1)

isHexDigit(c) == hexValue(c) >= 0

\* '0'..'9'; and with them 'A'..'F' and 'a'..'f'
DigitChars == 48..57
HexDigitChars == DigitChars \cup (65..70) \cup (97..102)

\* the value of a text of digits in the given base
RECURSIVE digitsValue(_, _, _)
digitsValue(s, base, acc) ==
    IF s = <<>> THEN acc
    ELSE digitsValue(Tail(s), base, base * acc + hexValue(s[1]))

\* the value of the hexadecimal digits at the head of s, cut to 8 bits
hexDigits(s) ==
    LET run == headRun(s, HexDigitChars)
        low == IF Len(run) > 2 THEN SubSeq(run, Len(run) - 1, Len(run)) ELSE run
    IN  digitsValue(low, 16, 0)

\* (uint8_t)strtoul(s, nullptr, 16): leading white space, an optional sign,
\* an optional 0x prefix, then as many hexadecimal digits as there are; no
\* digit at all gives 0; the result is cut to 8 bits.
strtoul16(s) ==
    LET t == trimLeft(s)
        neg == t # <<>> /\ t[1] = 45
        u == IF t # <<>> /\ (t[1] = 45 \/ t[1] = 43) THEN Tail(t) ELSE t
        pre == /\ Len(u) >= 3
               /\ u[1] = 48
               /\ (u[2] = 120 \/ u[2] = 88)
               /\ hexValue(u[3]) >= 0
        v == hexDigits(IF pre THEN SubSeq(u, 3, Len(u)) ELSE u)
    IN  IF neg THEN (0 - v) % 256 ELSE v % 256

\* the value of the decimal digits at the head of s
decDigits(s) == digitsValue(headRun(s, DigitChars), 10, 0)

\* String::toInt() is atol(): white space, an optional sign, decimal digits
toInt(s) ==
    LET t == trimLeft(s)
        neg == t # <<>> /\ t[1] = 45
        u == IF t # <<>> /\ (t[1] = 45 \/ t[1] = 43) THEN Tail(t) ELSE t
        v == decDigits(u)
    IN  IF neg THEN 0 - v ELSE v

RECURSIVE natToStr(_)
natToStr(n) ==
    IF n < 10 THEN <<48 + n>>
    ELSE natToStr(n \div 10) \o <<48 + (n % 10)>>

\* String(int): the decimal text of a value
intToStr(n) == IF n < 0 THEN <<45>> \o natToStr(0 - n) ELSE natToStr(n)

\* ------------------------------------------------------------------------
\* Text literals of the source, as bytes.
\* ------------------------------------------------------------------------
\* "protogen/visor/esp/set/fan"
TOPIC_SET_FAN == <<112, 114, 111, 116, 111, 103, 101, 110, 47, 118, 105, 115, 111, 114, 47, 101, 115, 112, 47, 115, 101, 116, 47, 102, 97, 110>>
\* "protogen/visor/esp/set/fanmode"
TOPIC_SET_FANMODE == <<112, 114, 111, 116, 111, 103, 101, 110, 47, 118, 105, 115, 111, 114, 47, 101, 115, 112, 47, 115, 101, 116, 47, 102, 97, 110, 109, 111, 100, 101>>
\* "protogen/visor/esp/config/fancurve"
TOPIC_CONFIG_FANCURVE == <<112, 114, 111, 116, 111, 103, 101, 110, 47, 118, 105, 115, 111, 114, 47, 101, 115, 112, 47, 99, 111, 110, 102, 105, 103, 47, 102, 97, 110, 99, 117, 114, 118, 101>>
\* "protogen/visor/esp/status/fancurve"
TOPIC_STATUS_FANCURVE == <<112, 114, 111, 116, 111, 103, 101, 110, 47, 118, 105, 115, 111, 114, 47, 101, 115, 112, 47, 115, 116, 97, 116, 117, 115, 47, 102, 97, 110, 99, 117, 114, 118, 101>>
\* "protogen/visor/teensy/menu/set"
TOPIC_MENU_SET == <<112, 114, 111, 116, 111, 103, 101, 110, 47, 118, 105, 115, 111, 114, 47, 116, 101, 101, 110, 115, 121, 47, 109, 101, 110, 117, 47, 115, 101, 116>>
\* "protogen/visor/teensy/menu/get"
TOPIC_MENU_GET == <<112, 114, 111, 116, 111, 103, 101, 110, 47, 118, 105, 115, 111, 114, 47, 116, 101, 101, 110, 115, 121, 47, 109, 101, 110, 117, 47, 103, 101, 116>>
\* "protogen/visor/teensy/menu/save"
TOPIC_MENU_SAVE == <<112, 114, 111, 116, 111, 103, 101, 110, 47, 118, 105, 115, 111, 114, 47, 116, 101, 101, 110, 115, 121, 47, 109, 101, 110, 117, 47, 115, 97, 118, 101>>
\* "protogen/visor/esp/restart"
TOPIC_RESTART == <<112, 114, 111, 116, 111, 103, 101, 110, 47, 118, 105, 115, 111, 114, 47, 101, 115, 112, 47, 114, 101, 115, 116, 97, 114, 116>>
\* "protogen/visor/teensy/menu/saved"
TOPIC_MENU_SAVED == <<112, 114, 111, 116, 111, 103, 101, 110, 47, 118, 105, 115, 111, 114, 47, 116, 101, 101, 110, 115, 121, 47, 109, 101, 110, 117, 47, 115, 97, 118, 101, 100>>
\* "protogen/visor/teensy/menu/error"
TOPIC_MENU_ERROR == <<112, 114, 111, 116, 111, 103, 101, 110, 47, 118, 105, 115, 111, 114, 47, 116, 101, 101, 110, 115, 121, 47, 109, 101, 110, 117, 47, 101, 114, 114, 111, 114>>
\* "protogen/visor/teensy/menu/schema"
TOPIC_MENU_SCHEMA == <<112, 114, 111, 116, 111, 103, 101, 110, 47, 118, 105, 115, 111, 114, 47, 116, 101, 101, 110, 115, 121, 47, 109, 101, 110, 117, 47, 115, 99, 104, 101, 109, 97>>
\* "protogen/visor/teensy/menu/status/"
TOPIC_MENU_STATUS_PREFIX == <<112, 114, 111, 116, 111, 103, 101, 110, 47, 118, 105, 115, 111, 114, 47, 116, 101, 101, 110, 115, 121, 47, 109, 101, 110, 117, 47, 115, 116, 97, 116, 117, 115, 47>>
\* "protogen/visor/teensy/status/booped"
TOPIC_STATUS_BOOPED == <<112, 114, 111, 116, 111, 103, 101, 110, 47, 118, 105, 115, 111, 114, 47, 116, 101, 101, 110, 115, 121, 47, 115, 116, 97, 116, 117, 115, 47, 98, 111, 111, 112, 101, 100>>
\* "protogen/visor/teensy/raw"
TOPIC_TEENSY_RAW == <<112, 114, 111, 116, 111, 103, 101, 110, 47, 118, 105, 115, 111, 114, 47, 116, 101, 101, 110, 115, 121, 47, 114, 97, 119>>
\* "CRC MISSING"
TXT_CRC_MISSING == <<67, 82, 67, 32, 77, 73, 83, 83, 73, 78, 71>>
\* "CRC FAIL"
TXT_CRC_FAIL == <<67, 82, 67, 32, 70, 65, 73, 76>>
\* "[TEENSY] "
TXT_TEENSY_TAG == <<91, 84, 69, 69, 78, 83, 89, 93, 32>>
\* "auto"
TXT_AUTO == <<97, 117, 116, 111>>
\* "manual"
TXT_MANUAL == <<109, 97, 110, 117, 97, 108>>
\* "true"
TXT_TRUE == <<116, 114, 117, 101>>
\* "OK SAVED"
TXT_OK_SAVED == <<79, 75, 32, 83, 65, 86, 69, 68>>
\* "ERR"
TXT_ERR == <<69, 82, 82>>
\* "BOOPED"
TXT_BOOPED == <<66, 79, 79, 80, 69, 68>>
\* "SET "
TXT_SET == <<83, 69, 84, 32>>
\* "GET ALL"
TXT_GET_ALL == <<71, 69, 84, 32, 65, 76, 76>>
\* "SAVE"
TXT_SAVE == <<83, 65, 86, 69>>
\* "RESTART"
TXT_RESTART == <<82, 69, 83, 84, 65, 82, 84>>
\* "param"
KEY_PARAM == <<112, 97, 114, 97, 109>>
\* "value"
KEY_VALUE == <<118, 97, 108, 117, 101>>
\* "label"
KEY_LABEL == <<108, 97, 98, 101, 108>>
\* "error"
KEY_ERROR == <<101, 114, 114, 111, 114>>
\* "mode"
KEY_MODE == <<109, 111, 100, 101>>

\* ------------------------------------------------------------------------
\* Parameter registry (mqtt_bridge.cpp:68-125) and the menu mirror
\* (mqtt_bridge.h:5-19).  A field is named by the TeensyMenu member it
\* points to; labels = <<>> stands for the null label pointer.
\* ------------------------------------------------------------------------
\* "DEFAULT", "ANGRY", "DOUBT", "FROWN", "LOOKUP", "SAD", "AUDIO1", "AUDIO2", "AUDIO3"
faceLabels == <<
    <<68, 69, 70, 65, 85, 76, 84>>,
    <<65, 78, 71, 82, 89>>,
    <<68, 79, 85, 66, 84>>,
    <<70, 82, 79, 87, 78>>,
    <<76, 79, 79, 75, 85, 80>>,
    <<83, 65, 68>>,
    <<65, 85, 68, 73, 79, 49>>,
    <<65, 85, 68, 73, 79, 50>>,
    <<65, 85, 68, 73, 79, 51>>
>>
\* "BASE", "YELLOW", "ORANGE", "WHITE", "GREEN", "PURPLE", "RED", "BLUE", "RAINBOW", "RAINBOWNOISE", "FLOWNOISE", "HORIZONTALRAINBOW", "BLACK"
colorLabels == <<
    <<66, 65, 83, 69>>,
    <<89, 69, 76, 76, 79, 87>>,
    <<79, 82, 65, 78, 71, 69>>,
    <<87, 72, 73, 84, 69>>,
    <<71, 82, 69, 69, 78>>,
    <<80, 85, 82, 80, 76, 69>>,
    <<82, 69, 68>>,
    <<66, 76, 85, 69>>,
    <<82, 65, 73, 78, 66, 79, 87>>,
    <<82, 65, 73, 78, 66, 79, 87, 78, 79, 73, 83, 69>>,
    <<70, 76, 79, 87, 78, 79, 73, 83, 69>>,
    <<72, 79, 82, 73, 90, 79, 78, 84, 65, 76, 82, 65, 73, 78, 66, 79, 87>>,
    <<66, 76, 65, 67, 75>>
>>
\* "NONE", "PHASEY", "PHASEX", "PHASER", "GLITCHX", "MAGNET", "FISHEYE", "HBLUR", "VBLUR", "RBLUR"
effectLabels == <<
    <<78, 79, 78, 69>>,
    <<80, 72, 65, 83, 69, 89>>,
    <<80, 72, 65, 83, 69, 88>>,
    <<80, 72, 65, 83, 69, 82>>,
    <<71, 76, 73, 84, 67, 72, 88>>,
    <<77, 65, 71, 78, 69, 84>>,
    <<70, 73, 83, 72, 69, 89, 69>>,
    <<72, 66, 76, 85, 82>>,
    <<86, 66, 76, 85, 82>>,
    <<82, 66, 76, 85, 82>>
>>
\* "OFF", "ON"
toggleLabels == <<
    <<79, 70, 70>>,
    <<79, 78>>
>>

\* {camel, proto, field, maxVal, labels}
paramMap == <<
    \* {"face", "FACE", &TeensyMenu::face, 8, faceLabels}
    [camel |-> <<102, 97, 99, 101>>, proto |-> <<70, 65, 67, 69>>,
     field |-> "face", maxVal |-> 8, labels |-> faceLabels],
    \* {"bright", "BRIGHT", &TeensyMenu::bright, 254, nullptr}
    [camel |-> <<98, 114, 105, 103, 104, 116>>, proto |-> <<66, 82, 73, 71, 72, 84>>,
     field |-> "bright", maxVal |-> 254, labels |-> <<>>],
    \* {"accentBright", "ABRIGHT", &TeensyMenu::accentBright, 254, nullptr}
    [camel |-> <<97, 99, 99, 101, 110, 116, 66, 114, 105, 103, 104, 116>>, proto |-> <<65, 66, 82, 73, 71, 72, 84>>,
     field |-> "accentBright", maxVal |-> 254, labels |-> <<>>],
    \* {"microphone", "MIC", &TeensyMenu::microphone, 1, toggleLabels}
    [camel |-> <<109, 105, 99, 114, 111, 112, 104, 111, 110, 101>>, proto |-> <<77, 73, 67>>,
     field |-> "microphone", maxVal |-> 1, labels |-> toggleLabels],
    \* {"micLevel", "MICLVL", &TeensyMenu::micLevel, 10, nullptr}
    [camel |-> <<109, 105, 99, 76, 101, 118, 101, 108>>, proto |-> <<77, 73, 67, 76, 86, 76>>,
     field |-> "micLevel", maxVal |-> 10, labels |-> <<>>],
    \* {"boopSensor", "BOOP", &TeensyMenu::boopSensor, 1, toggleLabels}
    [camel |-> <<98, 111, 111, 112, 83, 101, 110, 115, 111, 114>>, proto |-> <<66, 79, 79, 80>>,
     field |-> "boopSensor", maxVal |-> 1, labels |-> toggleLabels],
    \* {"spectrumMirror", "SPEC", &TeensyMenu::spectrumMirror, 1, toggleLabels}
    [camel |-> <<115, 112, 101, 99, 116, 114, 117, 109, 77, 105, 114, 114, 111, 114>>, proto |-> <<83, 80, 69, 67>>,
     field |-> "spectrumMirror", maxVal |-> 1, labels |-> toggleLabels],
    \* {"faceSize", "SIZE", &TeensyMenu::faceSize, 10, nullptr}
    [camel |-> <<102, 97, 99, 101, 83, 105, 122, 101>>, proto |-> <<83, 73, 90, 69>>,
     field |-> "faceSize", maxVal |-> 10, labels |-> <<>>],
    \* {"color", "COLOR", &TeensyMenu::color, 12, colorLabels}
    [camel |-> <<99, 111, 108, 111, 114>>, proto |-> <<67, 79, 76, 79, 82>>,
     field |-> "color", maxVal |-> 12, labels |-> colorLabels],
    \* {"hueF", "HUEF", &TeensyMenu::hueF, 254, nullptr}
    [camel |-> <<104, 117, 101, 70>>, proto |-> <<72, 85, 69, 70>>,
     field |-> "hueF", maxVal |-> 254, labels |-> <<>>],
    \* {"hueB", "HUEB", &TeensyMenu::hueB, 254, nullptr}
    [camel |-> <<104, 117, 101, 66>>, proto |-> <<72, 85, 69, 66>>,
     field |-> "hueB", maxVal |-> 254, labels |-> <<>>],
    \* {"effect", "EFFECT", &TeensyMenu::effect, 9, effectLabels}
    [camel |-> <<101, 102, 102, 101, 99, 116>>, proto |-> <<69, 70, 70, 69, 67, 84>>,
     field |-> "effect", maxVal |-> 9, labels |-> effectLabels]
>>
paramMapSize == Len(paramMap)

\* 0 stands for the null pointer a failed lookup returns; otherwise the
\* 1-based position of the entry in paramMap.
RECURSIVE findByCamelFrom(_, _)
findByCamelFrom(name, i) ==
    IF i > paramMapSize THEN 0
    ELSE IF name = paramMap[i].camel THEN i
    ELSE findByCamelFrom(name, i + 1)

\* a lookup that finds the first parameter whatever the name
findFirst(name) == 1

findByCamel(name) == findByCamelFrom(name, 1)

RECURSIVE findByProtoFrom(_, _)
findByProtoFrom(upper, i) ==
    IF i > paramMapSize THEN 0
    ELSE IF upper = paramMap[i].proto THEN i
    ELSE findByProtoFrom(upper, i + 1)

\* a lookup by token that compares the name as it was written
findByProtoAsWritten(name) == findByProtoFrom(name, 1)

findByProto(name) == findByProtoFrom(toUpperCase(name), 1)

\* struct TeensyMenu with its default member initialisers
TeensyMenuDefaults ==
    [face |-> 0, bright |-> 75, accentBright |-> 127, microphone |-> 1,
     micLevel |-> 5, boopSensor |-> 1, spectrumMirror |-> 1, faceSize |-> 7,
     color |-> 0, hueF |-> 0, hueB |-> 0, effect |-> 0]

\* conversion of an int to uint8_t
toUint8(v) == v % 256


\* ------------------------------------------------------------------------
\* ArduinoJson, as far as the router uses it: deserializeJson of a text,
\* member access, conversion to a C string or an int, serializeJson.
\* A value is [t, n, s, m]: its kind, its number, its text, its members
\* (an object's members are [k, v] pairs, an array's are its elements).
\* ------------------------------------------------------------------------
JNull == [t |-> "null", n |-> 0, s |-> <<>>, m |-> <<>>]
JInt(n) == [t |-> "int", n |-> n, s |-> <<>>, m |-> <<>>]
JFloat(n) == [t |-> "float", n |-> n, s |-> <<>>, m |-> <<>>]
JBool(b) == [t |-> "bool", n |-> IF b THEN 1 ELSE 0, s |-> <<>>, m |-> <<>>]
JStr(s) == [t |-> "str", n |-> 0, s |-> s, m |-> <<>>]
JObj(m) == [t |-> "obj", n |-> 0, s |-> <<>>, m |-> m]
JArr(m) == [t |-> "arr", n |-> 0, s |-> <<>>, m |-> m]

JFail == [ok |-> FALSE, v |-> JNull, rest |-> <<>>]
JOk(v, rest) == [ok |-> TRUE, v |-> v, rest |-> rest]

\* the digits at the head of s
digitRun(s) == headRun(s, DigitChars)

jsonNumber(s) ==
    LET neg == s[1] = 45
        u == IF neg THEN Tail(s) ELSE s
        ip == digitRun(u)
        afterInt == SubSeq(u, Len(ip) + 1, Len(u))
        frac == IF afterInt # <<>> /\ afterInt[1] = 46
                THEN digitRun(Tail(afterInt)) ELSE <<>>
        isFloat == afterInt # <<>> /\ afterInt[1] = 46
        afterAll == IF isFloat
                    THEN SubSeq(afterInt, Len(frac) + 2, Len(afterInt))
                    ELSE afterInt
        mag == decDigits(ip)
        val == IF neg THEN 0 - mag ELSE mag
    IN  IF ip = <<>> \/ (isFloat /\ frac = <<>>) THEN JFail
        ELSE IF isFloat THEN JOk(JFloat(val), afterAll)
        ELSE JOk(JInt(val), afterAll)

jsonString(s) ==
    LET body == Tail(s)
        close == indexOf(body, 34)
    IN  IF close < 0 \/ indexOf(substring(body, 0, close), 92) >= 0 THEN JFail
        ELSE JOk(JStr(substring(body, 0, close)), substringFrom(body, close + 1))

RECURSIVE jsonValue(_)
RECURSIVE jsonMembers(_, _)
RECURSIVE jsonElements(_, _)

jsonValue(s0) ==
    LET s == trimLeft(s0) IN
    IF s = <<>> THEN JFail
    ELSE IF s[1] = 123 THEN
        LET t == trimLeft(Tail(s)) IN
        IF t # <<>> /\ t[1] = 125 THEN JOk(JObj(<<>>), Tail(t))
        ELSE jsonMembers(t, <<>>)
    ELSE IF s[1] = 91 THEN
        LET t == trimLeft(Tail(s)) IN
        IF t # <<>> /\ t[1] = 93 THEN JOk(JArr(<<>>), Tail(t))
        ELSE jsonElements(t, <<>>)
    ELSE IF s[1] = 34 THEN jsonString(s)
    ELSE IF s[1] = 45 \/ isDigit(s[1]) THEN jsonNumber(s)
    ELSE IF startsWith(s, <<116, 114, 117, 101>>)
        THEN JOk(JBool(TRUE), substringFrom(s, 4))
    ELSE IF startsWith(s, <<102, 97, 108, 115, 101>>)
        THEN JOk(JBool(FALSE), substringFrom(s, 5))
    ELSE IF startsWith(s, <<110, 117, 108, 108>>)
        THEN JOk(JNull, substringFrom(s, 4))
    ELSE JFail

\* "key": value, then a comma and more members, or the closing brace
jsonMembers(s, acc) ==
    IF s = <<>> \/ s[1] # 34 THEN JFail
    ELSE
        LET k == jsonString(s)
            c == IF k.ok THEN trimLeft(k.rest) ELSE <<>>
        IN  IF ~k.ok \/ c = <<>> \/ c[1] # 58 THEN JFail
            ELSE
                LET v == jsonValue(Tail(c))
                    r == IF v.ok THEN trimLeft(v.rest) ELSE <<>>
                    acc2 == Append(acc, [k |-> k.v.s, v |-> v.v])
                IN  IF ~v.ok \/ r = <<>> THEN JFail
                    ELSE IF r[1] = 125 THEN JOk(JObj(acc2), Tail(r))
                    ELSE IF r[1] = 44 THEN jsonMembers(trimLeft(Tail(r)), acc2)
                    ELSE JFail

jsonElements(s, acc) ==
    LET v == jsonValue(s)
        r == IF v.ok THEN trimLeft(v.rest) ELSE <<>>
        acc2 == Append(acc, v.v)
    IN  IF ~v.ok \/ r = <<>> THEN JFail
        ELSE IF r[1] = 93 THEN JOk(JArr(acc2), Tail(r))
        ELSE IF r[1] = 44 THEN jsonElements(Tail(r), acc2)
        ELSE JFail

\* deserializeJson(doc, text): reads the first JSON value of the text
deserializeJson(text) ==
    LET r == jsonValue(text) IN [ok |-> r.ok, doc |-> r.v]

\* doc[key]: the first member of that name, null when there is none or the
\* document is no object
RECURSIVE jsonMemberFrom(_, _, _)
jsonMemberFrom(m, key, i) ==
    IF i > Len(m) THEN JNull
    ELSE IF m[i].k = key THEN m[i].v
    ELSE jsonMemberFrom(m, key, i + 1)

jsonGet(doc, key) ==
    IF doc.t = "obj" THEN jsonMemberFrom(doc.m, key, 1) ELSE JNull

\* conversion to const char*: isNull is the null pointer
asCString(v) ==
    IF v.t = "str" THEN [isNull |-> FALSE, s |-> v.s]
    ELSE [isNull |-> TRUE, s |-> <<>>]

INT_MAX == 2147483647

\* a text that is a decimal integer from its first to its last character
isIntegerText(s) ==
    LET u == IF s # <<>> /\ s[1] = 45 THEN Tail(s) ELSE s
    IN  u # <<>> /\ \A i \in 1..Len(u) : isDigit(u[i])

\* conversion to int: a number in range, a boolean as 0/1, a text that is a
\* number; anything else, and a missing member, is 0
asInt(v) ==
    LET fits(n) == IF n >= 0 - INT_MAX - 1 /\ n <= INT_MAX THEN n ELSE 0
    IN  IF v.t = "int" \/ v.t = "float" THEN fits(v.n)
        ELSE IF v.t = "bool" THEN v.n
        ELSE IF v.t = "str" /\ isIntegerText(v.s) THEN fits(toInt(v.s))
        ELSE 0

\* serializeJson: the compact text of a value
jsonQuote(s) == <<34>> \o s \o <<34>>

RECURSIVE jsonText(_)
RECURSIVE jsonMemberText(_, _)
RECURSIVE jsonElementText(_, _)

jsonText(v) ==
    IF v.t = "str" THEN jsonQuote(v.s)
    ELSE IF v.t = "int" \/ v.t = "float" THEN intToStr(v.n)
    ELSE IF v.t = "bool"
        THEN (IF v.n = 1 THEN <<116, 114, 117, 101>> ELSE <<102, 97, 108, 115, 101>>)
    ELSE IF v.t = "obj" THEN <<123>> \o jsonMemberText(v.m, 1) \o <<125>>
    ELSE IF v.t = "arr" THEN <<91>> \o jsonElementText(v.m, 1) \o <<93>>
    ELSE <<110, 117, 108, 108>>

jsonMemberText(m, i) ==
    IF i > Len(m) THEN <<>>
    ELSE (IF i > 1 THEN <<44>> ELSE <<>>)
         \o jsonQuote(m[i].k) \o <<58>> \o jsonText(m[i].v)
         \o jsonMemberText(m, i + 1)

jsonElementText(m, i) ==
    IF i > Len(m) THEN <<>>
    ELSE (IF i > 1 THEN <<44>> ELSE <<>>)
         \o jsonText(m[i]) \o jsonElementText(m, i + 1)

serializeJson(doc) == jsonText(doc)

\* containsKey(key)
RECURSIVE jsonHasFrom(_, _, _)
jsonHasFrom(m, key, i) ==
    IF i > Len(m) THEN FALSE
    ELSE IF m[i].k = key THEN TRUE
    ELSE jsonHasFrom(m, key, i + 1)

containsKey(doc, key) == doc.t = "obj" /\ jsonHasFrom(doc.m, key, 1)

\* conversion to uint8_t: a value outside 0..255 converts to 0
asUint8(v) ==
    LET n == IF v.t = "int" \/ v.t = "float" THEN v.n
             ELSE IF v.t = "bool" THEN v.n
             ELSE IF v.t = "str" /\ isIntegerText(v.s) THEN toInt(v.s)
             ELSE 0
    IN  IF n >= 0 /\ n <= 255 THEN n ELSE 0

\* conversion to a JsonArray: the elements, none when the value is no array
asArray(v) == IF v.t = "arr" THEN v.m ELSE <<>>


\* "color"
NAME_COLOR == <<99, 111, 108, 111, 114>>
\* "hueF"
NAME_HUEF == <<104, 117, 101, 70>>
\* "hueB"
NAME_HUEB == <<104, 117, 101, 66>>
\* "bright"
NAME_BRIGHT == <<98, 114, 105, 103, 104, 116>>
\* "face"
NAME_FACE == <<102, 97, 99, 101>>
\* "COLOR"
PROTO_COLOR == <<67, 79, 76, 79, 82>>
\* "HUEF"
PROTO_HUEF == <<72, 85, 69, 70>>
\* "HUEB"
PROTO_HUEB == <<72, 85, 69, 66>>
\* "BRIGHT"
PROTO_BRIGHT == <<66, 82, 73, 71, 72, 84>>
\* "FACE"
PROTO_FACE == <<70, 65, 67, 69>>
\* "temperature"
KEY_TEMPERATURE == <<116, 101, 109, 112, 101, 114, 97, 116, 117, 114, 101>>
\* "humidity"
KEY_HUMIDITY == <<104, 117, 109, 105, 100, 105, 116, 121>>
\* "fan"
KEY_FAN == <<102, 97, 110>>
\* "1"
TXT_ONE == <<49>>
\* "0"
TXT_ZERO == <<48>>

\* ------------------------------------------------------------------------
\* LED strips (led_strips.cpp).  L is the record of the file's static
\* variables; a pixel is <<red, green, blue>>.  FastLED is a library: its
\* functions are modelled by what they compute (8-bit integer arithmetic).
\* ------------------------------------------------------------------------
TRANSITION_MS == 667
LED_UPPER_ARCH_COUNT == 300
LED_RIGHT_EAR_COUNT == 40
LED_RIGHT_FIN_COUNT == 60
LED_LEFT_FIN_COUNT == 60
LED_LEFT_EAR_COUNT == 40
LED_TOTAL_COUNT ==
    LED_UPPER_ARCH_COUNT + LED_RIGHT_EAR_COUNT + LED_RIGHT_FIN_COUNT
    + LED_LEFT_FIN_COUNT + LED_LEFT_EAR_COUNT
NUM_STRIPS == 5

\* strips[s].count, and the offset of strip s in the snapshot buffer
stripCount ==
    <<LED_UPPER_ARCH_COUNT, LED_RIGHT_EAR_COUNT, LED_RIGHT_FIN_COUNT,
      LED_LEFT_FIN_COUNT, LED_LEFT_EAR_COUNT>>
stripOffset ==
    <<0, LED_UPPER_ARCH_COUNT, LED_UPPER_ARCH_COUNT + LED_RIGHT_EAR_COUNT,
      LED_UPPER_ARCH_COUNT + LED_RIGHT_EAR_COUNT + LED_RIGHT_FIN_COUNT,
      LED_UPPER_ARCH_COUNT + LED_RIGHT_EAR_COUNT + LED_RIGHT_FIN_COUNT
      + LED_LEFT_FIN_COUNT>>

WAVE_WAVELENGTH == 60
WAVE_PERIOD_MS == 3000

COLOR_BASE == 0
COLOR_RAINBOW == 8
COLOR_HORIZONTALRAINBOW == 11
COLOR_BLACK == 12

CRGB(r, g, b) == <<r, g, b>>
CRGB_Black == CRGB(0, 0, 0)

\* solidColors[color], color in 0..12
solidColors ==
    <<CRGB_Black, CRGB(255, 255, 0), CRGB(255, 165, 0), CRGB(255, 255, 255),
      CRGB(0, 255, 0), CRGB(255, 0, 255), CRGB(255, 0, 0), CRGB(0, 0, 255),
      CRGB_Black, CRGB_Black, CRGB_Black, CRGB_Black, CRGB_Black>>

\* FastLED scale8 and scale8_video
scale8(i, scale) == (i * (1 + scale)) \div 256
scale8_video(i, scale) == (i * scale) \div 256 + (IF i # 0 /\ scale # 0 THEN 1 ELSE 0)

\* FastLED hsv2rgb_rainbow, the conversion behind CRGB = CHSV(hue, sat, val):
\* the colour of the hue in its section of 32 hues, then the saturation,
\* then the value
hsvSection(section, third, twothirds) ==
    IF section = 0 THEN CRGB(255 - third, third, 0)
    ELSE IF section = 1 THEN CRGB(171, 85 + third, 0)
    ELSE IF section = 2 THEN CRGB(171 - twothirds, 170 + third, 0)
    ELSE IF section = 3 THEN CRGB(0, 255 - third, third)
    ELSE IF section = 4 THEN CRGB(0, 171 - twothirds, 85 + twothirds)
    ELSE IF section = 5 THEN CRGB(third, 0, 255 - third)
    ELSE IF section = 6 THEN CRGB(85 + third, 0, 171 - third)
    ELSE CRGB(170 + third, 0, 85 - third)

hsvDesaturated(rgb, sat, desat) ==
    IF sat = 255 THEN rgb
    ELSE IF sat = 0 THEN CRGB(255, 255, 255)
    ELSE [c \in 1..3 |-> scale8(rgb[c], 255 - desat) + desat]

hsvDimmed(rgb, val, dimmed) ==
    IF val = 255 THEN rgb
    ELSE IF dimmed = 0 THEN CRGB_Black
    ELSE [c \in 1..3 |-> scale8(rgb[c], dimmed)]

hsv2rgb_rainbow(hue, sat, val) ==
    hsvDimmed(hsvDesaturated(hsvSection(hue \div 32, scale8((hue % 32) * 8, 85),
                                        scale8((hue % 32) * 8, 170)),
                             sat, scale8_video(255 - sat, 255 - sat)),
              val, scale8_video(val, val))

\* FastLED blend8 and blend(p1, p2, amountOfP2)
blend8(a, b, amountOfB) == (a * (255 - amountOfB) + a + b * amountOfB + b) \div 256
blend(p1, p2, amountOfP2) ==
    IF amountOfP2 = 0 THEN p1
    ELSE IF amountOfP2 = 255 THEN p2
    ELSE CRGB(blend8(p1[1], p2[1], amountOfP2), blend8(p1[2], p2[2], amountOfP2),
              blend8(p1[3], p2[3], amountOfP2))

\* the colours fill_rainbow gives the 256 hues (saturation 240, value 255)
rainbowColors == [hue \in 0..255 |-> hsv2rgb_rainbow(hue, 240, 255)]

\* FastLED fill_rainbow: count pixels, the hue advancing by deltahue (a
\* uint8_t, so -3 is 253) from pixel to pixel
fill_rainbow(count, initialhue, deltahue) ==
    [i \in 1..count |-> rainbowColors[(initialhue + (i - 1) * deltahue) % 256]]

fillAll(color) == [s \in 1..NUM_STRIPS |-> [i \in 1..stripCount[s] |-> color]]

isAnimatedColor(color) == color >= COLOR_RAINBOW /\ color <= COLOR_HORIZONTALRAINBOW

\* a classification that does not look at the expression
isContinuousWhateverFace(L) ==
    IF L.targetBooped THEN TRUE
    ELSE IF isAnimatedColor(L.targetColor) THEN TRUE
    ELSE IF L.targetColor = COLOR_BASE /\ L.targetHueF # L.targetHueB THEN TRUE
    ELSE FALSE

isContinuous(L) ==
    IF L.targetBooped THEN TRUE
    ELSE IF L.targetFace # 1 /\ L.targetFace # 5 /\ isAnimatedColor(L.targetColor) THEN TRUE
    ELSE IF /\ ~L.targetBooped /\ L.targetFace # 1 /\ L.targetFace # 5
            /\ L.targetColor = COLOR_BASE /\ L.targetHueF # L.targetHueB THEN TRUE
    ELSE FALSE

\* cosineEase(elapsed / TRANSITION_MS) for elapsed = 0..666 ms, in units of
\* 2^-23: the float (1 - cosf(t * PI)) * 0.5 rounded down
EASE_ONE == 8388608
cosineEaseTable == <<
    0, 46, 186, 418, 744, 1163, 1674, 2279, 2977, 3768,
    4651, 5628, 6697, 7860, 9115, 10463, 11904, 13438, 15064, 16784,
    18596, 20500, 22497, 24587, 26769, 29044, 31411, 33870, 36422, 39066,
    41802, 44630, 47550, 50562, 53667, 56863, 60151, 63530, 67001, 70564,
    74218, 77964, 81801, 85729, 89748, 93859, 98060, 102352, 106735, 111209,
    115773, 120428, 125173, 130009, 134934, 139950, 145055, 150251, 155536, 160911,
    166375, 171928, 177571, 183303, 189124, 195033, 201032, 207119, 213294, 219558,
    225910, 232350, 238878, 245494, 252197, 258988, 265866, 272831, 279883, 287022,
    294248, 301560, 308958, 316443, 324014, 331670, 339413, 347241, 355154, 363152,
    371235, 379404, 387656, 395994, 404415, 412921, 421510, 430183, 438940, 447780,
    456703, 465709, 474798, 483969, 493223, 502558, 511976, 521475, 531056, 540718,
    550461, 560285, 570189, 580174, 590239, 600384, 610609, 620913, 631297, 641759,
    652301, 662921, 673619, 684395, 695250, 706181, 717191, 728277, 739441, 750680,
    761997, 773389, 784858, 796402, 808021, 819716, 831485, 843329, 855247, 867240,
    879306, 891446, 903659, 915945, 928303, 940735, 953238, 965813, 978460, 991178,
    1003968, 1016828, 1029758, 1042759, 1055830, 1068970, 1082180, 1095459, 1108806, 1122222,
    1135706, 1149258, 1162877, 1176564, 1190318, 1204138, 1218024, 1231977, 1245995, 1260079,
    1274228, 1288442, 1302720, 1317062, 1331468, 1345938, 1360471, 1375066, 1389725, 1404445,
    1419227, 1434071, 1448976, 1463942, 1478969, 1494056, 1509202, 1524409, 1539674, 1554999,
    1570381, 1585822, 1601322, 1616878, 1632492, 1648162, 1663889, 1679673, 1695512, 1711406,
    1727356, 1743360, 1759418, 1775531, 1791697, 1807917, 1824189, 1840514, 1856892, 1873321,
    1889802, 1906333, 1922916, 1939549, 1956232, 1972964, 1989746, 2006577, 2023456, 2040383,
    2057359, 2074382, 2091452, 2108568, 2125730, 2142939, 2160193, 2177492, 2194836, 2212224,
    2229656, 2247132, 2264651, 2282213, 2299817, 2317463, 2335151, 2352880, 2370650, 2388461,
    2406311, 2424201, 2442131, 2460099, 2478106, 2496151, 2514233, 2532353, 2550510, 2568702,
    2586932, 2605197, 2623497, 2641832, 2660201, 2678604, 2697042, 2715512, 2734015, 2752550,
    2771118, 2789717, 2808347, 2827008, 2845699, 2864420, 2883171, 2901951, 2920759, 2939596,
    2958460, 2977352, 2996271, 3015217, 3034189, 3053186, 3072209, 3091256, 3110328, 3129424,
    3148544, 3167687, 3186853, 3206041, 3225251, 3244482, 3263734, 3283008, 3302301, 3321615,
    3340947, 3360299, 3379669, 3399057, 3418462, 3437885, 3457325, 3476781, 3496253, 3515741,
    3535243, 3554760, 3574292, 3593837, 3613395, 3632967, 3652550, 3672146, 3691753, 3711372,
    3731001, 3750641, 3770290, 3789949, 3809616, 3829293, 3848977, 3868669, 3888368, 3908074,
    3927787, 3947505, 3967228, 3986957, 4006690, 4026428, 4046170, 4065914, 4085661, 4105411,
    4125163, 4144916, 4164671, 4184426, 4204182, 4223937, 4243691, 4263444, 4283196, 4302946,
    4322693, 4342438, 4362180, 4381917, 4401650, 4421378, 4441103, 4460821, 4480533, 4500239,
    4519939, 4539631, 4559315, 4578991, 4598659, 4618317, 4637967, 4657606, 4677236, 4696854,
    4716461, 4736057, 4755641, 4775212, 4794771, 4814315, 4833847, 4853364, 4872866, 4892354,
    4911826, 4931283, 4950722, 4970145, 4989551, 5008939, 5028308, 5047660, 5066993, 5086306,
    5105599, 5124872, 5144125, 5163357, 5182566, 5201755, 5220920, 5240064, 5259183, 5278279,
    5297351, 5316399, 5335422, 5354419, 5373390, 5392337, 5411255, 5430147, 5449011, 5467848,
    5486657, 5505436, 5524187, 5542909, 5561600, 5580260, 5598891, 5617490, 5636057, 5654593,
    5673095, 5691566, 5710003, 5728406, 5746776, 5765111, 5783411, 5801676, 5819904, 5838098,
    5856255, 5874374, 5892457, 5910502, 5928509, 5946476, 5964406, 5982296, 6000147, 6017957,
    6035727, 6053457, 6071144, 6088790, 6106394, 6123957, 6141475, 6158951, 6176383, 6193772,
    6211115, 6228415, 6245669, 6262878, 6280040, 6297156, 6314226, 6331249, 6348224, 6365151,
    6382030, 6398862, 6415643, 6432375, 6449058, 6465692, 6482274, 6498806, 6515287, 6531716,
    6548093, 6564418, 6580690, 6596911, 6613077, 6629189, 6645247, 6661252, 6677201, 6693095,
    6708935, 6724718, 6740446, 6756116, 6771729, 6787286, 6802785, 6818226, 6833609, 6848933,
    6864199, 6879405, 6894552, 6909638, 6924665, 6939631, 6954537, 6969380, 6984163, 6998883,
    7013541, 7028137, 7042670, 7057139, 7071545, 7085887, 7100166, 7114379, 7128528, 7142611,
    7156630, 7170583, 7184470, 7198290, 7212044, 7225730, 7239350, 7252901, 7266386, 7279802,
    7293149, 7306427, 7319637, 7332777, 7345848, 7358849, 7371780, 7384640, 7397429, 7410147,
    7422795, 7435370, 7447873, 7460304, 7472663, 7484949, 7497162, 7509301, 7521368, 7533360,
    7545278, 7557123, 7568892, 7580587, 7592206, 7603750, 7615219, 7626611, 7637927, 7649167,
    7660330, 7671417, 7682426, 7693358, 7704212, 7714988, 7725687, 7736307, 7746849, 7757311,
    7767694, 7777999, 7788224, 7798368, 7808433, 7818418, 7828323, 7838147, 7847890, 7857551,
    7867132, 7876632, 7886049, 7895385, 7904639, 7913810, 7922898, 7931904, 7940828, 7949668,
    7958424, 7967097, 7975686, 7984192, 7992614, 8000951, 8009204, 8017372, 8025456, 8033454,
    8041367, 8049195, 8056937, 8064594, 8072164, 8079649, 8087048, 8094360, 8101585, 8108725,
    8115777, 8122742, 8129620, 8136411, 8143114, 8149729, 8156257, 8162698, 8169049, 8175313,
    8181488, 8187576, 8193574, 8199484, 8205305, 8211036, 8216679, 8222233, 8227697, 8233072,
    8238357, 8243552, 8248658, 8253673, 8258599, 8263434, 8268179, 8272834, 8277398, 8281872,
    8286255, 8290547, 8294749, 8298859, 8302878, 8306807, 8310644, 8314389, 8318043, 8321606,
    8325077, 8328457, 8331745, 8334941, 8338045, 8341057, 8343978, 8346806, 8349542, 8352186,
    8354737, 8357197, 8359564, 8361839, 8364021, 8366110, 8368107, 8370012, 8371824, 8373543,
    8375170, 8376703, 8378144, 8379493, 8380748, 8381910, 8382980, 8383956, 8384840, 8385631,
    8386328, 8386933, 8387445, 8387864, 8388189, 8388422, 8388561>>
cosineEase(elapsed) == cosineEaseTable[elapsed + 1]

\* (uint8_t)((sinf(x) + 1.0f) * 0.5f * 255.0f) for x = 2 * PI * k / 3000,
\* k = 0..2999
waveTable == <<
    127, 127, 128, 128, 128, 128, 129, 129, 129, 129, 130, 130, 130, 130, 131, 131, 131, 132, 132, 132,
    132, 133, 133, 133, 133, 134, 134, 134, 134, 135, 135, 135, 136, 136, 136, 136, 137, 137, 137, 137,
    138, 138, 138, 138, 139, 139, 139, 140, 140, 140, 140, 141, 141, 141, 141, 142, 142, 142, 142, 143,
    143, 143, 144, 144, 144, 144, 145, 145, 145, 145, 146, 146, 146, 146, 147, 147, 147, 147, 148, 148,
    148, 149, 149, 149, 149, 150, 150, 150, 150, 151, 151, 151, 151, 152, 152, 152, 152, 153, 153, 153,
    154, 154, 154, 154, 155, 155, 155, 155, 156, 156, 156, 156, 157, 157, 157, 157, 158, 158, 158, 158,
    159, 159, 159, 159, 160, 160, 160, 161, 161, 161, 161, 162, 162, 162, 162, 163, 163, 163, 163, 164,
    164, 164, 164, 165, 165, 165, 165, 166, 166, 166, 166, 167, 167, 167, 167, 168, 168, 168, 168, 169,
    169, 169, 169, 170, 170, 170, 170, 171, 171, 171, 171, 172, 172, 172, 172, 173, 173, 173, 173, 174,
    174, 174, 174, 175, 175, 175, 175, 176, 176, 176, 176, 177, 177, 177, 177, 178, 178, 178, 178, 179,
    179, 179, 179, 180, 180, 180, 180, 181, 181, 181, 181, 182, 182, 182, 182, 182, 183, 183, 183, 183,
    184, 184, 184, 184, 185, 185, 185, 185, 186, 186, 186, 186, 187, 187, 187, 187, 187, 188, 188, 188,
    188, 189, 189, 189, 189, 190, 190, 190, 190, 191, 191, 191, 191, 191, 192, 192, 192, 192, 193, 193,
    193, 193, 194, 194, 194, 194, 194, 195, 195, 195, 195, 196, 196, 196, 196, 196, 197, 197, 197, 197,
    198, 198, 198, 198, 198, 199, 199, 199, 199, 200, 200, 200, 200, 200, 201, 201, 201, 201, 202, 202,
    202, 202, 202, 203, 203, 203, 203, 203, 204, 204, 204, 204, 205, 205, 205, 205, 205, 206, 206, 206,
    206, 206, 207, 207, 207, 207, 207, 208, 208, 208, 208, 208, 209, 209, 209, 209, 209, 210, 210, 210,
    210, 211, 211, 211, 211, 211, 212, 212, 212, 212, 212, 213, 213, 213, 213, 213, 213, 214, 214, 214,
    214, 214, 215, 215, 215, 215, 215, 216, 216, 216, 216, 216, 217, 217, 217, 217, 217, 218, 218, 218,
    218, 218, 218, 219, 219, 219, 219, 219, 220, 220, 220, 220, 220, 220, 221, 221, 221, 221, 221, 222,
    222, 222, 222, 222, 222, 223, 223, 223, 223, 223, 224, 224, 224, 224, 224, 224, 225, 225, 225, 225,
    225, 225, 226, 226, 226, 226, 226, 226, 227, 227, 227, 227, 227, 227, 228, 228, 228, 228, 228, 228,
    229, 229, 229, 229, 229, 229, 230, 230, 230, 230, 230, 230, 230, 231, 231, 231, 231, 231, 231, 232,
    232, 232, 232, 232, 232, 232, 233, 233, 233, 233, 233, 233, 233, 234, 234, 234, 234, 234, 234, 235,
    235, 235, 235, 235, 235, 235, 236, 236, 236, 236, 236, 236, 236, 236, 237, 237, 237, 237, 237, 237,
    237, 238, 238, 238, 238, 238, 238, 238, 238, 239, 239, 239, 239, 239, 239, 239, 239, 240, 240, 240,
    240, 240, 240, 240, 240, 241, 241, 241, 241, 241, 241, 241, 241, 242, 242, 242, 242, 242, 242, 242,
    242, 242, 243, 243, 243, 243, 243, 243, 243, 243, 243, 244, 244, 244, 244, 244, 244, 244, 244, 244,
    245, 245, 245, 245, 245, 245, 245, 245, 245, 245, 246, 246, 246, 246, 246, 246, 246, 246, 246, 246,
    247, 247, 247, 247, 247, 247, 247, 247, 247, 247, 247, 247, 248, 248, 248, 248, 248, 248, 248, 248,
    248, 248, 248, 249, 249, 249, 249, 249, 249, 249, 249, 249, 249, 249, 249, 249, 250, 250, 250, 250,
    250, 250, 250, 250, 250, 250, 250, 250, 250, 250, 250, 251, 251, 251, 251, 251, 251, 251, 251, 251,
    251, 251, 251, 251, 251, 251, 251, 252, 252, 252, 252, 252, 252, 252, 252, 252, 252, 252, 252, 252,
    252, 252, 252, 252, 252, 252, 253, 253, 253, 253, 253, 253, 253, 253, 253, 253, 253, 253, 253, 253,
    253, 253, 253, 253, 253, 253, 253, 253, 253, 253, 253, 254, 254, 254, 254, 254, 254, 254, 254, 254,
    254, 254, 254, 254, 254, 254, 254, 254, 254, 254, 254, 254, 254, 254, 254, 254, 254, 254, 254, 254,
    254, 254, 254, 254, 254, 254, 254, 254, 254, 254, 254, 254, 254, 254, 254, 254, 254, 254, 254, 254,
    254, 254, 254, 254, 254, 254, 254, 254, 254, 254, 255, 254, 254, 254, 254, 254, 254, 254, 254, 254,
    254, 254, 254, 254, 254, 254, 254, 254, 254, 254, 254, 254, 254, 254, 254, 254, 254, 254, 254, 254,
    254, 254, 254, 254, 254, 254, 254, 254, 254, 254, 254, 254, 254, 254, 254, 254, 254, 254, 254, 254,
    254, 254, 254, 254, 254, 254, 254, 254, 254, 254, 253, 253, 253, 253, 253, 253, 253, 253, 253, 253,
    253, 253, 253, 253, 253, 253, 253, 253, 253, 253, 253, 253, 253, 253, 253, 252, 252, 252, 252, 252,
    252, 252, 252, 252, 252, 252, 252, 252, 252, 252, 252, 252, 252, 252, 251, 251, 251, 251, 251, 251,
    251, 251, 251, 251, 251, 251, 251, 251, 251, 251, 250, 250, 250, 250, 250, 250, 250, 250, 250, 250,
    250, 250, 250, 250, 250, 249, 249, 249, 249, 249, 249, 249, 249, 249, 249, 249, 249, 249, 248, 248,
    248, 248, 248, 248, 248, 248, 248, 248, 248, 247, 247, 247, 247, 247, 247, 247, 247, 247, 247, 247,
    247, 246, 246, 246, 246, 246, 246, 246, 246, 246, 246, 245, 245, 245, 245, 245, 245, 245, 245, 245,
    245, 244, 244, 244, 244, 244, 244, 244, 244, 244, 243, 243, 243, 243, 243, 243, 243, 243, 243, 242,
    242, 242, 242, 242, 242, 242, 242, 242, 241, 241, 241, 241, 241, 241, 241, 241, 240, 240, 240, 240,
    240, 240, 240, 240, 239, 239, 239, 239, 239, 239, 239, 239, 238, 238, 238, 238, 238, 238, 238, 238,
    237, 237, 237, 237, 237, 237, 237, 236, 236, 236, 236, 236, 236, 236, 236, 235, 235, 235, 235, 235,
    235, 235, 234, 234, 234, 234, 234, 234, 233, 233, 233, 233, 233, 233, 233, 232, 232, 232, 232, 232,
    232, 232, 231, 231, 231, 231, 231, 231, 230, 230, 230, 230, 230, 230, 230, 229, 229, 229, 229, 229,
    229, 228, 228, 228, 228, 228, 228, 227, 227, 227, 227, 227, 227, 226, 226, 226, 226, 226, 226, 225,
    225, 225, 225, 225, 225, 224, 224, 224, 224, 224, 224, 223, 223, 223, 223, 223, 222, 222, 222, 222,
    222, 222, 221, 221, 221, 221, 221, 220, 220, 220, 220, 220, 220, 219, 219, 219, 219, 219, 218, 218,
    218, 218, 218, 218, 217, 217, 217, 217, 217, 216, 216, 216, 216, 216, 215, 215, 215, 215, 215, 214,
    214, 214, 214, 214, 213, 213, 213, 213, 213, 213, 212, 212, 212, 212, 212, 211, 211, 211, 211, 211,
    210, 210, 210, 210, 209, 209, 209, 209, 209, 208, 208, 208, 208, 208, 207, 207, 207, 207, 207, 206,
    206, 206, 206, 206, 205, 205, 205, 205, 205, 204, 204, 204, 204, 203, 203, 203, 203, 203, 202, 202,
    202, 202, 202, 201, 201, 201, 201, 200, 200, 200, 200, 200, 199, 199, 199, 199, 198, 198, 198, 198,
    198, 197, 197, 197, 197, 196, 196, 196, 196, 196, 195, 195, 195, 195, 194, 194, 194, 194, 194, 193,
    193, 193, 193, 192, 192, 192, 192, 191, 191, 191, 191, 191, 190, 190, 190, 190, 189, 189, 189, 189,
    188, 188, 188, 188, 187, 187, 187, 187, 187, 186, 186, 186, 186, 185, 185, 185, 185, 184, 184, 184,
    184, 183, 183, 183, 183, 182, 182, 182, 182, 182, 181, 181, 181, 181, 180, 180, 180, 180, 179, 179,
    179, 179, 178, 178, 178, 178, 177, 177, 177, 177, 176, 176, 176, 176, 175, 175, 175, 175, 174, 174,
    174, 174, 173, 173, 173, 173, 172, 172, 172, 172, 171, 171, 171, 171, 170, 170, 170, 170, 169, 169,
    169, 169, 168, 168, 168, 168, 167, 167, 167, 167, 166, 166, 166, 166, 165, 165, 165, 165, 164, 164,
    164, 164, 163, 163, 163, 163, 162, 162, 162, 162, 161, 161, 161, 161, 160, 160, 160, 159, 159, 159,
    159, 158, 158, 158, 158, 157, 157, 157, 157, 156, 156, 156, 156, 155, 155, 155, 155, 154, 154, 154,
    154, 153, 153, 153, 152, 152, 152, 152, 151, 151, 151, 151, 150, 150, 150, 150, 149, 149, 149, 149,
    148, 148, 148, 147, 147, 147, 147, 146, 146, 146, 146, 145, 145, 145, 145, 144, 144, 144, 144, 143,
    143, 143, 142, 142, 142, 142, 141, 141, 141, 141, 140, 140, 140, 140, 139, 139, 139, 138, 138, 138,
    138, 137, 137, 137, 137, 136, 136, 136, 136, 135, 135, 135, 134, 134, 134, 134, 133, 133, 133, 133,
    132, 132, 132, 132, 131, 131, 131, 130, 130, 130, 130, 129, 129, 129, 129, 128, 128, 128, 128, 127,
    127, 127, 126, 126, 126, 126, 125, 125, 125, 125, 124, 124, 124, 124, 123, 123, 123, 122, 122, 122,
    122, 121, 121, 121, 121, 120, 120, 120, 120, 119, 119, 119, 118, 118, 118, 118, 117, 117, 117, 117,
    116, 116, 116, 116, 115, 115, 115, 114, 114, 114, 114, 113, 113, 113, 113, 112, 112, 112, 112, 111,
    111, 111, 110, 110, 110, 110, 109, 109, 109, 109, 108, 108, 108, 108, 107, 107, 107, 107, 106, 106,
    106, 105, 105, 105, 105, 104, 104, 104, 104, 103, 103, 103, 103, 102, 102, 102, 102, 101, 101, 101,
    100, 100, 100, 100, 99, 99, 99, 99, 98, 98, 98, 98, 97, 97, 97, 97, 96, 96, 96, 96,
    95, 95, 95, 95, 94, 94, 94, 93, 93, 93, 93, 92, 92, 92, 92, 91, 91, 91, 91, 90,
    90, 90, 90, 89, 89, 89, 89, 88, 88, 88, 88, 87, 87, 87, 87, 86, 86, 86, 86, 85,
    85, 85, 85, 84, 84, 84, 84, 83, 83, 83, 83, 82, 82, 82, 82, 81, 81, 81, 81, 80,
    80, 80, 80, 79, 79, 79, 79, 78, 78, 78, 78, 77, 77, 77, 77, 76, 76, 76, 76, 75,
    75, 75, 75, 74, 74, 74, 74, 73, 73, 73, 73, 72, 72, 72, 72, 72, 71, 71, 71, 71,
    70, 70, 70, 70, 69, 69, 69, 69, 68, 68, 68, 68, 67, 67, 67, 67, 67, 66, 66, 66,
    66, 65, 65, 65, 65, 64, 64, 64, 64, 63, 63, 63, 63, 63, 62, 62, 62, 62, 61, 61,
    61, 61, 60, 60, 60, 60, 60, 59, 59, 59, 59, 58, 58, 58, 58, 58, 57, 57, 57, 57,
    56, 56, 56, 56, 56, 55, 55, 55, 55, 54, 54, 54, 54, 54, 53, 53, 53, 53, 52, 52,
    52, 52, 52, 51, 51, 51, 51, 51, 50, 50, 50, 50, 49, 49, 49, 49, 49, 48, 48, 48,
    48, 48, 47, 47, 47, 47, 47, 46, 46, 46, 46, 46, 45, 45, 45, 45, 45, 44, 44, 44,
    44, 43, 43, 43, 43, 43, 42, 42, 42, 42, 42, 41, 41, 41, 41, 41, 41, 40, 40, 40,
    40, 40, 39, 39, 39, 39, 39, 38, 38, 38, 38, 38, 37, 37, 37, 37, 37, 36, 36, 36,
    36, 36, 36, 35, 35, 35, 35, 35, 34, 34, 34, 34, 34, 34, 33, 33, 33, 33, 33, 32,
    32, 32, 32, 32, 32, 31, 31, 31, 31, 31, 30, 30, 30, 30, 30, 30, 29, 29, 29, 29,
    29, 29, 28, 28, 28, 28, 28, 28, 27, 27, 27, 27, 27, 27, 26, 26, 26, 26, 26, 26,
    25, 25, 25, 25, 25, 25, 24, 24, 24, 24, 24, 24, 24, 23, 23, 23, 23, 23, 23, 22,
    22, 22, 22, 22, 22, 22, 21, 21, 21, 21, 21, 21, 21, 20, 20, 20, 20, 20, 20, 19,
    19, 19, 19, 19, 19, 19, 18, 18, 18, 18, 18, 18, 18, 18, 17, 17, 17, 17, 17, 17,
    17, 16, 16, 16, 16, 16, 16, 16, 16, 15, 15, 15, 15, 15, 15, 15, 15, 14, 14, 14,
    14, 14, 14, 14, 14, 13, 13, 13, 13, 13, 13, 13, 13, 12, 12, 12, 12, 12, 12, 12,
    12, 12, 11, 11, 11, 11, 11, 11, 11, 11, 11, 10, 10, 10, 10, 10, 10, 10, 10, 10,
    9, 9, 9, 9, 9, 9, 9, 9, 9, 9, 8, 8, 8, 8, 8, 8, 8, 8, 8, 8,
    7, 7, 7, 7, 7, 7, 7, 7, 7, 7, 7, 7, 6, 6, 6, 6, 6, 6, 6, 6,
    6, 6, 6, 5, 5, 5, 5, 5, 5, 5, 5, 5, 5, 5, 5, 5, 4, 4, 4, 4,
    4, 4, 4, 4, 4, 4, 4, 4, 4, 4, 4, 3, 3, 3, 3, 3, 3, 3, 3, 3,
    3, 3, 3, 3, 3, 3, 3, 2, 2, 2, 2, 2, 2, 2, 2, 2, 2, 2, 2, 2,
    2, 2, 2, 2, 2, 2, 1, 1, 1, 1, 1, 1, 1, 1, 1, 1, 1, 1, 1, 1,
    1, 1, 1, 1, 1, 1, 1, 1, 1, 1, 1, 0, 0, 0, 0, 0, 0, 0, 0, 0,
    0, 0, 0, 0, 0, 0, 0, 0, 0, 0, 0, 0, 0, 0, 0, 0, 0, 0, 0, 0,
    0, 0, 0, 0, 0, 0, 0, 0, 0, 0, 0, 0, 0, 0, 0, 0, 0, 0, 0, 0,
    0, 0, 0, 0, 0, 0, 0, 0, 0, 0, 0, 0, 0, 0, 0, 0, 0, 0, 0, 0,
    0, 0, 0, 0, 0, 0, 0, 0, 0, 0, 0, 0, 0, 0, 0, 0, 0, 0, 0, 0,
    0, 0, 0, 0, 0, 0, 0, 0, 0, 0, 0, 0, 0, 0, 0, 0, 0, 0, 0, 0,
    0, 0, 0, 0, 0, 0, 0, 0, 0, 0, 1, 1, 1, 1, 1, 1, 1, 1, 1, 1,
    1, 1, 1, 1, 1, 1, 1, 1, 1, 1, 1, 1, 1, 1, 1, 2, 2, 2, 2, 2,
    2, 2, 2, 2, 2, 2, 2, 2, 2, 2, 2, 2, 2, 2, 3, 3, 3, 3, 3, 3,
    3, 3, 3, 3, 3, 3, 3, 3, 3, 3, 4, 4, 4, 4, 4, 4, 4, 4, 4, 4,
    4, 4, 4, 4, 4, 5, 5, 5, 5, 5, 5, 5, 5, 5, 5, 5, 5, 5, 6, 6,
    6, 6, 6, 6, 6, 6, 6, 6, 6, 7, 7, 7, 7, 7, 7, 7, 7, 7, 7, 7,
    7, 8, 8, 8, 8, 8, 8, 8, 8, 8, 8, 9, 9, 9, 9, 9, 9, 9, 9, 9,
    9, 10, 10, 10, 10, 10, 10, 10, 10, 10, 11, 11, 11, 11, 11, 11, 11, 11, 11, 12,
    12, 12, 12, 12, 12, 12, 12, 12, 13, 13, 13, 13, 13, 13, 13, 13, 14, 14, 14, 14,
    14, 14, 14, 14, 15, 15, 15, 15, 15, 15, 15, 15, 16, 16, 16, 16, 16, 16, 16, 16,
    17, 17, 17, 17, 17, 17, 17, 18, 18, 18, 18, 18, 18, 18, 18, 19, 19, 19, 19, 19,
    19, 19, 20, 20, 20, 20, 20, 20, 21, 21, 21, 21, 21, 21, 21, 22, 22, 22, 22, 22,
    22, 22, 23, 23, 23, 23, 23, 23, 24, 24, 24, 24, 24, 24, 24, 25, 25, 25, 25, 25,
    25, 26, 26, 26, 26, 26, 26, 27, 27, 27, 27, 27, 27, 28, 28, 28, 28, 28, 28, 29,
    29, 29, 29, 29, 29, 30, 30, 30, 30, 30, 30, 31, 31, 31, 31, 31, 32, 32, 32, 32,
    32, 32, 33, 33, 33, 33, 33, 34, 34, 34, 34, 34, 34, 35, 35, 35, 35, 35, 36, 36,
    36, 36, 36, 36, 37, 37, 37, 37, 37, 38, 38, 38, 38, 38, 39, 39, 39, 39, 39, 40,
    40, 40, 40, 40, 41, 41, 41, 41, 41, 41, 42, 42, 42, 42, 42, 43, 43, 43, 43, 43,
    44, 44, 44, 44, 45, 45, 45, 45, 45, 46, 46, 46, 46, 46, 47, 47, 47, 47, 47, 48,
    48, 48, 48, 48, 49, 49, 49, 49, 49, 50, 50, 50, 50, 51, 51, 51, 51, 51, 52, 52,
    52, 52, 52, 53, 53, 53, 53, 54, 54, 54, 54, 54, 55, 55, 55, 55, 56, 56, 56, 56,
    56, 57, 57, 57, 57, 58, 58, 58, 58, 58, 59, 59, 59, 59, 60, 60, 60, 60, 60, 61,
    61, 61, 61, 62, 62, 62, 62, 63, 63, 63, 63, 63, 64, 64, 64, 64, 65, 65, 65, 65,
    66, 66, 66, 66, 67, 67, 67, 67, 67, 68, 68, 68, 68, 69, 69, 69, 69, 70, 70, 70,
    70, 71, 71, 71, 71, 72, 72, 72, 72, 72, 73, 73, 73, 73, 74, 74, 74, 74, 75, 75,
    75, 75, 76, 76, 76, 76, 77, 77, 77, 77, 78, 78, 78, 78, 79, 79, 79, 79, 80, 80,
    80, 80, 81, 81, 81, 81, 82, 82, 82, 82, 83, 83, 83, 83, 84, 84, 84, 84, 85, 85,
    85, 85, 86, 86, 86, 86, 87, 87, 87, 87, 88, 88, 88, 88, 89, 89, 89, 89, 90, 90,
    90, 90, 91, 91, 91, 91, 92, 92, 92, 92, 93, 93, 93, 93, 94, 94, 94, 95, 95, 95,
    95, 96, 96, 96, 96, 97, 97, 97, 97, 98, 98, 98, 98, 99, 99, 99, 99, 100, 100, 100,
    100, 101, 101, 101, 102, 102, 102, 102, 103, 103, 103, 103, 104, 104, 104, 104, 105, 105, 105, 105,
    106, 106, 106, 107, 107, 107, 107, 108, 108, 108, 108, 109, 109, 109, 109, 110, 110, 110, 110, 111,
    111, 111, 112, 112, 112, 112, 113, 113, 113, 113, 114, 114, 114, 114, 115, 115, 115, 116, 116, 116,
    116, 117, 117, 117, 117, 118, 118, 118, 118, 119, 119, 119, 120, 120, 120, 120, 121, 121, 121, 121,
    122, 122, 122, 122, 123, 123, 123, 124, 124, 124, 124, 125, 125, 125, 125, 126, 126, 126, 126, 127>>

\* the blend amount of pixel i at time now: the sine has the argument
\* 2 * PI * (i / WAVE_WAVELENGTH - now / WAVE_PERIOD_MS)
waveAmount(i, now) ==
    waveTable[((i * (WAVE_PERIOD_MS \div WAVE_WAVELENGTH) + WAVE_PERIOD_MS
                - (now % WAVE_PERIOD_MS)) % WAVE_PERIOD_MS) + 1]

takeSnapshot(L) ==
    [L EXCEPT !.snapshot = L.leds[1] \o L.leds[2] \o L.leds[3] \o L.leds[4] \o L.leds[5]]

blendFromSnapshot(L, ratio) ==
    [L EXCEPT !.leds =
        [s \in 1..NUM_STRIPS |->
            [i \in 1..stripCount[s] |->
                blend(L.snapshot[stripOffset[s] + i], L.leds[s][i], ratio)]]]

\* the frame computeTargetFrame writes into the LED arrays
rainbowFrame(now) ==
    [s \in 1..NUM_STRIPS |-> fill_rainbow(stripCount[s], (now \div 10) % 256, 253)]

waveFrame(colorF, colorB, now) ==
    [s \in 1..NUM_STRIPS |->
        [i \in 1..stripCount[s] |-> blend(colorF, colorB, waveAmount(i - 1, now))]]

\* a target frame that tests the animated palette before the face overrides
computeTargetFramePaletteFirst(L, now) ==
    IF L.targetBooped \/ isAnimatedColor(L.targetColor) THEN rainbowFrame(now)
    ELSE IF L.targetFace = 1 THEN fillAll(CRGB(255, 0, 0))
    ELSE IF L.targetFace = 5 THEN fillAll(CRGB(0, 0, 255))
    ELSE IF L.targetColor = COLOR_BASE
    THEN IF L.targetHueF # L.targetHueB
         THEN waveFrame(hsv2rgb_rainbow(L.targetHueF, 255, 255),
                        hsv2rgb_rainbow(L.targetHueB, 255, 255), now)
         ELSE fillAll(hsv2rgb_rainbow(L.targetHueF, 255, 255))
    ELSE IF L.targetColor <= COLOR_BLACK THEN fillAll(solidColors[L.targetColor + 1])
    ELSE fillAll(CRGB_Black)

\* a target frame that tests the face overrides before the boop
computeTargetFrameFaceFirst(L, now) ==
    IF L.targetFace = 1 THEN fillAll(CRGB(255, 0, 0))
    ELSE IF L.targetFace = 5 THEN fillAll(CRGB(0, 0, 255))
    ELSE IF L.targetBooped \/ isAnimatedColor(L.targetColor) THEN rainbowFrame(now)
    ELSE IF L.targetColor = COLOR_BASE
    THEN IF L.targetHueF # L.targetHueB
         THEN waveFrame(hsv2rgb_rainbow(L.targetHueF, 255, 255),
                        hsv2rgb_rainbow(L.targetHueB, 255, 255), now)
         ELSE fillAll(hsv2rgb_rainbow(L.targetHueF, 255, 255))
    ELSE IF L.targetColor <= COLOR_BLACK THEN fillAll(solidColors[L.targetColor + 1])
    ELSE fillAll(CRGB_Black)

computeTargetFrame(L, now) ==
    IF L.targetBooped THEN rainbowFrame(now)
    ELSE IF L.targetFace = 1 THEN fillAll(CRGB(255, 0, 0))
    ELSE IF L.targetFace = 5 THEN fillAll(CRGB(0, 0, 255))
    ELSE IF isAnimatedColor(L.targetColor) THEN rainbowFrame(now)
    ELSE IF L.targetColor = COLOR_BASE
    THEN IF L.targetHueF # L.targetHueB
         THEN waveFrame(hsv2rgb_rainbow(L.targetHueF, 255, 255),
                        hsv2rgb_rainbow(L.targetHueB, 255, 255), now)
         ELSE fillAll(hsv2rgb_rainbow(L.targetHueF, 255, 255))
    ELSE IF L.targetColor <= COLOR_BLACK THEN fillAll(solidColors[L.targetColor + 1])
    ELSE fillAll(CRGB_Black)

\* FastLED.setBrightness and FastLED.show: `shown` is what the strips were
\* written with last, `wrote` that the call in progress has written them
setBrightness(L, scale) == [L EXCEPT !.brightness = scale]
show(L) ==
    [L EXCEPT !.shown = [leds |-> L.leds, bright |-> L.brightness], !.wrote = TRUE]

\* negativeToUint8: what this build makes of (uint8_t) of a negative float
\* (led_strips.cpp:215), which the language leaves undefined: "wraps" (the
\* low byte of the truncated integer) or "zero" (a saturating conversion)
LedStripsBuild(negativeToUint8) ==
    [targetColor |-> 0, targetHueF |-> 0, targetHueB |-> 0, targetBright |-> 75,
     targetFace |-> 0, targetBooped |-> FALSE,
     transFromBright |-> 75, transToBright |-> 75, transStart |-> 0,
     transActive |-> FALSE,
     outputBright |-> 75, ready |-> FALSE, needsRedraw |-> TRUE,
     leds |-> fillAll(CRGB_Black),
     snapshot |-> [i \in 1..LED_TOTAL_COUNT |-> CRGB_Black],
     brightness |-> 75,
     shown |-> [leds |-> fillAll(CRGB_Black), bright |-> 75],
     wrote |-> TRUE,
     negativeToUint8 |-> negativeToUint8]

\* the static variables after ledStripsInit()
LedStripsInit == LedStripsBuild("wraps")

\* a beginTransition that keeps the snapshot taken before
beginTransitionStaleSnapshot(L, millis, newBright) ==
    [L EXCEPT !.transFromBright = L.outputBright,
              !.transToBright = newBright,
              !.transStart = millis,
              !.transActive = TRUE]

beginTransition(L, millis, newBright) ==
    [takeSnapshot(L) EXCEPT !.transFromBright = L.outputBright,
                            !.transToBright = newBright,
                            !.transStart = millis,
                            !.transActive = TRUE]

\* (uint8_t)((float)(transToBright - transFromBright) * ratio)
brightnessStep(L, ratio) ==
    LET scaled(d) == (d * ratio) \div EASE_ONE
    IN  IF L.transToBright >= L.transFromBright
        THEN scaled(L.transToBright - L.transFromBright)
        ELSE IF L.negativeToUint8 = "wraps"
        THEN (256 - scaled(L.transFromBright - L.transToBright)) % 256
        ELSE 0

\* a frame update that renders on every call once the engine is activated
ledStripsUpdateEveryFrame(L, millis) ==
    LET finish(T) == [T EXCEPT !.outputBright = T.transToBright, !.transActive = FALSE]
        fade(T, ratio) ==
            [blendFromSnapshot(T, (ratio * 255) \div EASE_ONE)
                EXCEPT !.outputBright = (T.transFromBright + brightnessStep(T, ratio)) % 256]
        blended(T, elapsed) ==
            IF T.transActive
            THEN IF elapsed >= TRANSITION_MS THEN finish(T)
                 ELSE fade(T, cosineEase(elapsed))
            ELSE [T EXCEPT !.outputBright = T.targetBright]
        present(T) == [show(setBrightness(T, T.outputBright)) EXCEPT !.needsRedraw = FALSE]
    IN  IF ~L.ready THEN L
        ELSE present(blended([L EXCEPT !.leds = computeTargetFrame(L, millis)],
                             millis - L.transStart))

ledStripsUpdate(L, millis) ==
    LET finish(T) == [T EXCEPT !.outputBright = T.transToBright, !.transActive = FALSE]
        fade(T, ratio) ==
            [blendFromSnapshot(T, (ratio * 255) \div EASE_ONE)
                EXCEPT !.outputBright = (T.transFromBright + brightnessStep(T, ratio)) % 256]
        blended(T, elapsed) ==
            IF T.transActive
            THEN IF elapsed >= TRANSITION_MS THEN finish(T)
                 ELSE fade(T, cosineEase(elapsed))
            ELSE [T EXCEPT !.outputBright = T.targetBright]
        present(T) == [show(setBrightness(T, T.outputBright)) EXCEPT !.needsRedraw = FALSE]
    IN  IF ~L.ready THEN L
        ELSE IF ~isContinuous(L) /\ ~L.transActive /\ ~L.needsRedraw THEN L
        ELSE present(blended([L EXCEPT !.leds = computeTargetFrame(L, millis)],
                             millis - L.transStart))

\* a ledStripsSetColor that takes the brightness as it comes
ledStripsSetColorUncapped(L, millis, colorIndex, hueF, hueB, bright0) ==
    LET bright == bright0
        first == ~L.ready
        changed == \/ colorIndex # L.targetColor
                   \/ hueF # L.targetHueF
                   \/ hueB # L.targetHueB
                   \/ bright # L.targetBright
        L1 == [L EXCEPT !.ready = TRUE]
        L2 == [L1 EXCEPT !.targetColor = colorIndex,
                         !.targetHueF = hueF,
                         !.targetHueB = hueB,
                         !.targetBright = bright]
        snap(T) == show(setBrightness([T EXCEPT !.leds = computeTargetFrame(T, millis),
                                                !.outputBright = bright], bright))
    IN  IF ~changed /\ ~first THEN L1
        ELSE IF first THEN snap(L2)
        ELSE [beginTransition(L2, millis, bright) EXCEPT !.needsRedraw = TRUE]

ledStripsSetColor(L, millis, colorIndex, hueF, hueB, bright0) ==
    LET bright == IF bright0 > MAX_BRIGHTNESS THEN MAX_BRIGHTNESS ELSE bright0
        first == ~L.ready
        changed == \/ colorIndex # L.targetColor
                   \/ hueF # L.targetHueF
                   \/ hueB # L.targetHueB
                   \/ bright # L.targetBright
        L1 == [L EXCEPT !.ready = TRUE]
        L2 == [L1 EXCEPT !.targetColor = colorIndex,
                         !.targetHueF = hueF,
                         !.targetHueB = hueB,
                         !.targetBright = bright]
        snap(T) == show(setBrightness([T EXCEPT !.leds = computeTargetFrame(T, millis),
                                                !.outputBright = bright], bright))
    IN  IF ~changed /\ ~first THEN L1
        ELSE IF first THEN snap(L2)
        ELSE [beginTransition(L2, millis, bright) EXCEPT !.needsRedraw = TRUE]

ledStripsSetBooped(L, millis, booped) ==
    IF booped = L.targetBooped THEN L
    ELSE [beginTransition([L EXCEPT !.targetBooped = booped], millis, L.targetBright)
            EXCEPT !.needsRedraw = TRUE]

ledStripsSetFace(L, millis, face) ==
    IF face = L.targetFace THEN L
    ELSE [beginTransition([L EXCEPT !.targetFace = face], millis, L.targetBright)
            EXCEPT !.needsRedraw = TRUE]

\* ------------------------------------------------------------------------
\* Fan and fan curve (fan.cpp, fan_curve.cpp).  Curve thresholds are floats
\* in the source and are whole numbers here.
\* ------------------------------------------------------------------------
MAX_CURVE_POINTS == 8

CurvePoint(value, fan) == [value |-> value, fan |-> fan]

FanCurveDefaults ==
    [autoMode |-> FALSE,
     temperatureCurve |-> <<CurvePoint(15, 0), CurvePoint(20, 30), CurvePoint(25, 50),
                            CurvePoint(30, 80), CurvePoint(35, 100), CurvePoint(0, 0),
                            CurvePoint(0, 0), CurvePoint(0, 0)>>,
     temperatureCurveSize |-> 5,
     humidityCurve |-> <<CurvePoint(30, 0), CurvePoint(40, 40), CurvePoint(60, 60),
                         CurvePoint(80, 100), CurvePoint(0, 0), CurvePoint(0, 0),
                         CurvePoint(0, 0), CurvePoint(0, 0)>>,
     humidityCurveSize |-> 4]

PrefsEmpty ==
    [isKey |-> FALSE, auto |-> FALSE, tempSize |-> 0, temp |-> <<>>,
     humSize |-> 0, hum |-> <<>>]

fanCurveSetAutoMode(cfg, enabled) == [cfg EXCEPT !.autoMode = enabled]

\* the points of a JSON list copied over the head of a curve, at most
\* MAX_CURVE_POINTS of them; the number copied is the new size
curveCount(arr) == IF Len(arr) > MAX_CURVE_POINTS THEN MAX_CURVE_POINTS ELSE Len(arr)

curveFromJson(curve, arr) ==
    [i \in 1..MAX_CURVE_POINTS |->
        IF i <= curveCount(arr)
        THEN CurvePoint(asInt(jsonGet(arr[i], KEY_VALUE)), asUint8(jsonGet(arr[i], KEY_FAN)))
        ELSE curve[i]]

\* fanCurveSetConfig: [ok, crash, config].  strcmp on a "mode" member that
\* is no text dereferences a null pointer.
fanCurveSetConfig(cfg, json) ==
    LET setMode(c, doc) ==
            IF containsKey(doc, KEY_MODE)
            THEN [c EXCEPT !.autoMode = (asCString(jsonGet(doc, KEY_MODE)).s = TXT_AUTO)]
            ELSE c
        setTemperature(c, doc, arr) ==
            IF containsKey(doc, KEY_TEMPERATURE)
            THEN [c EXCEPT !.temperatureCurve = curveFromJson(@, arr),
                           !.temperatureCurveSize = curveCount(arr)]
            ELSE c
        setHumidity(c, doc, arr) ==
            IF containsKey(doc, KEY_HUMIDITY)
            THEN [c EXCEPT !.humidityCurve = curveFromJson(@, arr),
                           !.humidityCurveSize = curveCount(arr)]
            ELSE c
        apply(d) ==
            IF ~d.ok THEN [ok |-> FALSE, crash |-> FALSE, config |-> cfg]
            ELSE IF containsKey(d.doc, KEY_MODE) /\ asCString(jsonGet(d.doc, KEY_MODE)).isNull
                THEN [ok |-> FALSE, crash |-> TRUE, config |-> cfg]
            ELSE [ok |-> TRUE, crash |-> FALSE,
                  config |-> setHumidity(
                                 setTemperature(setMode(cfg, d.doc), d.doc,
                                                asArray(jsonGet(d.doc, KEY_TEMPERATURE))),
                                 d.doc, asArray(jsonGet(d.doc, KEY_HUMIDITY)))]
    IN  apply(deserializeJson(json))

curveToJson(curve, size) ==
    JArr([i \in 1..size |->
            JObj(<<[k |-> KEY_VALUE, v |-> JInt(curve[i].value)],
                   [k |-> KEY_FAN, v |-> JInt(curve[i].fan)]>>)])

fanCurveConfigToJson(cfg) ==
    serializeJson(JObj(<<
        [k |-> KEY_MODE, v |-> JStr(IF cfg.autoMode THEN TXT_AUTO ELSE TXT_MANUAL)],
        [k |-> KEY_TEMPERATURE, v |-> curveToJson(cfg.temperatureCurve, cfg.temperatureCurveSize)],
        [k |-> KEY_HUMIDITY, v |-> curveToJson(cfg.humidityCurve, cfg.humidityCurveSize)]>>))

fanCurveSave(cfg) ==
    [isKey |-> TRUE, auto |-> cfg.autoMode,
     tempSize |-> cfg.temperatureCurveSize,
     temp |-> SubSeq(cfg.temperatureCurve, 1, cfg.temperatureCurveSize),
     humSize |-> cfg.humidityCurveSize,
     hum |-> SubSeq(cfg.humidityCurve, 1, cfg.humidityCurveSize)]

\* the stored points over the head of a curve
curveLoad(curve, stored, size) ==
    [i \in 1..MAX_CURVE_POINTS |->
        IF i <= size /\ i <= Len(stored) THEN stored[i] ELSE curve[i]]

fanCurveLoad(cfg, p) ==
    IF p.isKey
    THEN [autoMode |-> p.auto,
          temperatureCurve |-> curveLoad(cfg.temperatureCurve, p.temp, p.tempSize),
          temperatureCurveSize |-> p.tempSize,
          humidityCurve |-> curveLoad(cfg.humidityCurve, p.hum, p.humSize),
          humidityCurveSize |-> p.humSize]
    ELSE cfg

\* fanSetSpeed: constrain(percent, 0, 100)
fanSetSpeed(percent) ==
    IF percent < 0 THEN 0 ELSE IF percent > 100 THEN 100 ELSE percent

\* the quotient of a by b > 0 rounded toward zero, as the conversion of a
\* float to int rounds
truncDiv(a, b) == IF a >= 0 THEN a \div b ELSE -((-a) \div b)

\* interpolateCurve: the fan percentage of the curve at the value.  The
\* float curve[i].fan + t * (curve[i + 1].fan - curve[i].fan) is the exact
\* quotient for the readings drawn here (t is 0 or 1/2).
interpolateCurve(curve, size, value) ==
    LET segments == {i \in 1..(size - 1) :
                        value >= curve[i].value /\ value < curve[i + 1].value}
        first(segs) == CHOOSE i \in segs : \A j \in segs : i <= j
        within(i) ==
            truncDiv(curve[i].fan * (curve[i + 1].value - curve[i].value)
                     + (value - curve[i].value) * (curve[i + 1].fan - curve[i].fan),
                     curve[i + 1].value - curve[i].value)
    IN  IF size = 0 THEN 0
        ELSE IF value <= curve[1].value THEN curve[1].fan
        ELSE IF value >= curve[size].value THEN curve[size].fan
        ELSE IF segments # {} THEN within(first(segments))
        ELSE curve[size].fan

\* fanCurveCalculate: max(tempSpeed, humSpeed)
fanCurveCalculate(cfg, temperature, humidity) ==
    LET larger(a, b) == IF a > b THEN a ELSE b
    IN  larger(interpolateCurve(cfg.temperatureCurve, cfg.temperatureCurveSize, temperature),
               interpolateCurve(cfg.humidityCurve, cfg.humidityCurveSize, humidity))

\* sensorsUpdate: a reading replaces the stored values unless the sensor
\* returned NaN
sensorsUpdate(stored, reading) ==
    IF reading.isNan THEN stored
    ELSE [temperature |-> reading.temperature, humidity |-> reading.humidity]


\* "min"
KEY_MIN == <<109, 105, 110>>
\* "max"
KEY_MAX == <<109, 97, 120>>
\* "type"
KEY_TYPE == <<116, 121, 112, 101>>
\* "options"
KEY_OPTIONS == <<111, 112, 116, 105, 111, 110, 115>>
\* "toggle"
TXT_TOGGLE == <<116, 111, 103, 103, 108, 101>>
\* "select"
TXT_SELECT == <<115, 101, 108, 101, 99, 116>>
\* "range"
TXT_RANGE == <<114, 97, 110, 103, 101>>
\* "protogen/fins/renderer/status/shader"
TOPIC_PREFIX_SHADER == <<112, 114, 111, 116, 111, 103, 101, 110, 47, 102, 105, 110, 115, 47, 114, 101, 110, 100, 101, 114, 101, 114, 47, 115, 116, 97, 116, 117, 115, 47, 115, 104, 97, 100, 101, 114>>
\* "protogen/fins/bluetoothbridge/status/devices"
TOPIC_PREFIX_DEVICES == <<112, 114, 111, 116, 111, 103, 101, 110, 47, 102, 105, 110, 115, 47, 98, 108, 117, 101, 116, 111, 111, 116, 104, 98, 114, 105, 100, 103, 101, 47, 115, 116, 97, 116, 117, 115, 47, 100, 101, 118, 105, 99, 101, 115>>
\* "protogen/visor/esp/status/alive"
TOPIC_STATUS_ALIVE == <<112, 114, 111, 116, 111, 103, 101, 110, 47, 118, 105, 115, 111, 114, 47, 101, 115, 112, 47, 115, 116, 97, 116, 117, 115, 47, 97, 108, 105, 118, 101>>

\* ------------------------------------------------------------------------
\* Program state.
\* ------------------------------------------------------------------------
VARIABLES
    serialRx,           \* Serial: bytes from the host not yet read
    serialTx,           \* Serial: what the firmware wrote, one entry per line
    serial1Rx,          \* Serial1: bytes from the companion device not yet read
    serial1Tx,          \* Serial1: what the firmware wrote, one entry per line
    inputBuffer,        \* mqtt_bridge.cpp inputBuffer
    piAlive,            \* mqtt_bridge.cpp piAlive
    lastPiHeartbeat,    \* mqtt_bridge.cpp lastPiHeartbeat
    teensyMenu,         \* mqtt_bridge.cpp teensyMenu
    teensyInputBuffer,  \* teensy_comm.cpp inputBuffer
    config,             \* fan_curve.cpp config
    prefs,              \* the "fancurve" namespace of the persistent store
    fanSpeedPercent,    \* fan.cpp fanSpeedPercent
    sensors,            \* sensors.cpp temperature and humidity
    lastSensorUpdate,   \* main.cpp lastSensorUpdate
    ledStrips,          \* led_strips.cpp target and transition variables
    running,            \* FALSE between ESP.restart() and the next setup()
    now,                \* millis()
    routed,             \* the (topic, payload) pairs processMessage was called with
    delivered,          \* the lines the companion link handed to its callback
    lineCut,            \* "cut": bytes of the host line being read were discarded
                        \* at the cap; "ended": so were bytes of the line whose
                        \* newline was read last; "no" otherwise
    consumed,           \* the step taken last: the link its handler read, the
                        \* bytes read, and the firmware's state when it began
    heard,              \* a host message has reached processMessage since start-up
    calls,              \* the calls the handler that ran last made to the fan
                        \* and LED modules and to mqttBridgePublish, in order
    sends,              \* number of chunks the environment has sent
    computed            \* the function applied last, its argument and its result

vars == <<serialRx, serialTx, serial1Rx, serial1Tx, inputBuffer, piAlive,
          lastPiHeartbeat, teensyMenu, teensyInputBuffer, config, prefs,
          fanSpeedPercent, sensors, lastSensorUpdate, ledStrips, running, now, routed, delivered,
          lineCut, heard, calls, consumed, sends, computed>>

\* The firmware's own state as one record, for the operators that thread it
\* through a handler.
World ==
    [serialTx |-> serialTx, serial1Tx |-> serial1Tx, inputBuffer |-> inputBuffer,
     piAlive |-> piAlive, lastPiHeartbeat |-> lastPiHeartbeat,
     teensyMenu |-> teensyMenu, teensyInputBuffer |-> teensyInputBuffer,
     config |-> config, prefs |-> prefs, fanSpeedPercent |-> fanSpeedPercent,
     sensors |-> sensors, lastSensorUpdate |-> lastSensorUpdate,
     ledStrips |-> ledStrips, running |-> running, now |-> now,
     routed |-> routed, delivered |-> delivered, lineCut |-> lineCut,
     heard |-> heard, calls |-> calls]

Install(w) ==
    /\ serialTx' = w.serialTx
    /\ serial1Tx' = w.serial1Tx
    /\ inputBuffer' = w.inputBuffer
    /\ piAlive' = w.piAlive
    /\ lastPiHeartbeat' = w.lastPiHeartbeat
    /\ teensyMenu' = w.teensyMenu
    /\ teensyInputBuffer' = w.teensyInputBuffer
    /\ config' = w.config
    /\ prefs' = w.prefs
    /\ fanSpeedPercent' = w.fanSpeedPercent
    /\ sensors' = w.sensors
    /\ lastSensorUpdate' = w.lastSensorUpdate
    /\ ledStrips' = w.ledStrips
    /\ running' = w.running
    /\ routed' = w.routed
    /\ delivered' = w.delivered
    /\ lineCut' = w.lineCut
    /\ heard' = w.heard
    /\ calls' = w.calls

\* ------------------------------------------------------------------------
\* Host link, outbound (mqtt_bridge.cpp:139-150)
\* ------------------------------------------------------------------------
\* a frame whose checksum covers the direction marker too
PublishFrameMarked(topic, payload) ==
    LET body == topic \o <<MSG_SEPARATOR>> \o payload
        crc == crc8(<<MSG_TO_PI>> \o body)
    IN  <<MSG_TO_PI>> \o body \o <<MSG_CRC_DELIM>>
        \o <<hexChars[(crc \div 16) + 1], hexChars[(crc % 16) + 1]>>
        \o <<CH_NEWLINE>>

\* the bytes mqttBridgePublish writes for (topic, payload)
PublishFrame(topic, payload) ==
    LET body == topic \o <<MSG_SEPARATOR>> \o payload
        crc == crc8(body)
    IN  <<MSG_TO_PI>> \o body \o <<MSG_CRC_DELIM>>
        \o <<hexChars[(crc \div 16) + 1], hexChars[(crc % 16) + 1]>>
        \o <<CH_NEWLINE>>

\* the record of a call: the function called and its integer argument, 0
\* when it has none
called(w, name, arg) == [w EXCEPT !.calls = Append(@, <<name, arg>>)]

mqttBridgePublish(w, topic, payload) ==
    called([w EXCEPT !.serialTx = Append(w.serialTx, PublishFrame(topic, payload))],
           "mqttBridgePublish", 0)

\* Serial.println(text)
serialPrintln(w, text) ==
    [w EXCEPT !.serialTx = Append(w.serialTx, text \o <<CH_RETURN, CH_NEWLINE>>)]

\* onTeensyCommand -> teensyCommSend: Serial1.println(cmd)
onTeensyCommand(w, cmd) ==
    [w EXCEPT !.serial1Tx = Append(w.serial1Tx, cmd \o <<CH_RETURN, CH_NEWLINE>>)]

\* ------------------------------------------------------------------------
\* Schema and per-parameter status (mqtt_bridge.cpp:443-453, 499-519)
\* ------------------------------------------------------------------------
\* a schema entry whose type is "select" for every parameter with labels
schemaEntrySelectOnly(m) ==
    LET base == <<[k |-> KEY_MIN, v |-> JInt(0)], [k |-> KEY_MAX, v |-> JInt(m.maxVal)]>>
    IN  IF m.labels # <<>>
        THEN JObj(base \o <<
                [k |-> KEY_TYPE, v |-> JStr(TXT_SELECT)],
                [k |-> KEY_OPTIONS,
                 v |-> JArr([j \in 1..(m.maxVal + 1) |-> JStr(m.labels[j])])]>>)
        ELSE JObj(base \o <<[k |-> KEY_TYPE, v |-> JStr(TXT_RANGE)]>>)

schemaEntry(m) ==
    LET base == <<[k |-> KEY_MIN, v |-> JInt(0)], [k |-> KEY_MAX, v |-> JInt(m.maxVal)]>>
    IN  IF m.labels # <<>>
        THEN JObj(base \o <<
                [k |-> KEY_TYPE,
                 v |-> JStr(IF m.maxVal <= 1 THEN TXT_TOGGLE ELSE TXT_SELECT)],
                [k |-> KEY_OPTIONS,
                 v |-> JArr([j \in 1..(m.maxVal + 1) |-> JStr(m.labels[j])])]>>)
        ELSE JObj(base \o <<[k |-> KEY_TYPE, v |-> JStr(TXT_RANGE)]>>)

schemaDoc ==
    JObj([i \in 1..paramMapSize |-> [k |-> paramMap[i].camel, v |-> schemaEntry(paramMap[i])]])

mqttBridgePublishSchema(w) ==
    mqttBridgePublish(w, TOPIC_MENU_SCHEMA, serializeJson(schemaDoc))

\* a status document that carries the value alone
paramStatusDocUnlabelled(m, value) ==
    JObj(<<[k |-> KEY_VALUE, v |-> JInt(value)]>>)

\* value is the uint8_t the caller's int converts to
paramStatusDoc(m, value) ==
    JObj(<<[k |-> KEY_VALUE, v |-> JInt(value)]>>
         \o (IF m.labels # <<>> /\ value <= m.maxVal
             THEN <<[k |-> KEY_LABEL, v |-> JStr(m.labels[value + 1])]>>
             ELSE <<>>))

publishParamStatus(w, m, value) ==
    mqttBridgePublish(w, TOPIC_MENU_STATUS_PREFIX \o m.camel,
                      serializeJson(paramStatusDoc(m, value)))


\* ------------------------------------------------------------------------
\* Router: host messages (mqtt_bridge.cpp:152-312)
\* ------------------------------------------------------------------------
\* teensyMenu.*(m->field) = value: the int narrows to the uint8_t member
\* a store that adds to what is there
addMenuValue(menu, m, value) == [menu EXCEPT ![m.field] = toUint8(@ + value)]

storeMenuValue(menu, m, value) == [menu EXCEPT ![m.field] = toUint8(value)]

\* "SET " + String(m->proto) + " " + String(value)
setCommand(m, value) == TXT_SET \o m.proto \o <<CH_SPACE>> \o intToStr(value)

\* the LED retarget a menu/set of parameter name p asks for
\* ledStripsSetColor(teensyMenu.color, teensyMenu.hueF, teensyMenu.hueB,
\* teensyMenu.bright), called from the router
colorRetargeted(w) ==
    called([w EXCEPT !.ledStrips =
                ledStripsSetColor(w.ledStrips, w.now, w.teensyMenu.color,
                                  w.teensyMenu.hueF, w.teensyMenu.hueB, w.teensyMenu.bright)],
           "ledStripsSetColor", 0)

\* ledStripsSetFace(teensyMenu.face), called from the router
faceRetargeted(w) ==
    called([w EXCEPT !.ledStrips = ledStripsSetFace(w.ledStrips, w.now, w.teensyMenu.face)],
           "ledStripsSetFace", 0)

\* a retarget of the colour whatever the parameter
retargetAlways(w, p) == colorRetargeted(w)

\* a menu set that leaves the LED strips alone
retargetNothing(w, p) == w

retargetByCamel(w, p) ==
    IF p = NAME_COLOR \/ p = NAME_HUEF \/ p = NAME_HUEB \/ p = NAME_BRIGHT
    THEN colorRetargeted(w)
    ELSE IF p = NAME_FACE
    THEN faceRetargeted(w)
    ELSE w

republishFanCurve(w) ==
    mqttBridgePublish(w, TOPIC_STATUS_FANCURVE, fanCurveConfigToJson(w.config))

\* fanCurveSetAutoMode(enabled), called from the router
autoModeSet(w, enabled) ==
    called([w EXCEPT !.config = fanCurveSetAutoMode(@, enabled)],
           "fanCurveSetAutoMode", IF enabled THEN 1 ELSE 0)

\* fanCurveSave(), called from the router
fanCurveSaved(w) == called([w EXCEPT !.prefs = fanCurveSave(w.config)], "fanCurveSave", 0)

\* onFanSpeed(speed): main.cpp onFanSpeedChange -> fanSetSpeed
onFanSpeedChange(w, percent) ==
    called([w EXCEPT !.fanSpeedPercent = fanSetSpeed(percent)], "onFanSpeed", percent)

\* a handler that persists the configuration before it changes the mode
setFanSaveFirst(w, payload) ==
    republishFanCurve(
        onFanSpeedChange(autoModeSet(fanCurveSaved(w), FALSE), toInt(payload)))

setFan(w, payload) ==
    republishFanCurve(
        onFanSpeedChange(fanCurveSaved(autoModeSet(w, FALSE)), toInt(payload)))

setFanMode(w, payload) ==
    republishFanCurve(fanCurveSaved(autoModeSet(w, payload = TXT_AUTO)))

configFanCurve(w, payload) ==
    LET apply(r) ==
            IF r.crash THEN [w EXCEPT !.running = FALSE]
            ELSE IF r.ok
            THEN republishFanCurve(fanCurveSaved([w EXCEPT !.config = r.config]))
            ELSE w
    IN  apply(fanCurveSetConfig(w.config, payload))

menuSet(w, payload) ==
    LET store(m, value) ==
            onTeensyCommand([w EXCEPT !.teensyMenu = storeMenuValue(@, m, value)],
                            setCommand(m, value))
        apply(d, param, i) ==
            IF d.ok /\ ~param.isNull /\ i # 0
            THEN retargetByCamel(store(paramMap[i], asInt(jsonGet(d.doc, KEY_VALUE))),
                                 param.s)
            ELSE w
        lookup(d, param) == apply(d, param, findByCamel(param.s))
        read(d) == lookup(d, asCString(jsonGet(d.doc, KEY_PARAM)))
    IN  read(deserializeJson(payload))

menuGet(w) == onTeensyCommand(mqttBridgePublishSchema(w), TXT_GET_ALL)

\* a menu save that also acknowledges to the host by itself
menuSaveAcknowledged(w) ==
    mqttBridgePublish(onTeensyCommand(w, TXT_SAVE), TOPIC_MENU_SAVED, TXT_TRUE)

menuSave(w) == onTeensyCommand(w, TXT_SAVE)

\* RESTART goes out, then ESP.restart(): the firmware stops until setup()
restart(w) == [onTeensyCommand(w, TXT_RESTART) EXCEPT !.running = FALSE]

\* a host marked alive without the time of its message
heartbeatUnstamped(w) == [w EXCEPT !.piAlive = TRUE, !.heard = TRUE]

\* piAlive = true; lastPiHeartbeat = millis();
heartbeat(w) == [w EXCEPT !.piAlive = TRUE, !.lastPiHeartbeat = w.now, !.heard = TRUE]

\* The telemetry topics (shader, devices, metrics, performance, launcher
\* activity, preset, notifications) only cache display fields that are not
\* part of this model: like an unknown topic they change nothing else.
processMessage(w0, topic, payload) ==
    LET w == [heartbeat(w0) EXCEPT !.routed = Append(@, <<topic, payload>>)]
    IN  IF topic = TOPIC_SET_FAN THEN setFan(w, payload)
        ELSE IF topic = TOPIC_SET_FANMODE THEN setFanMode(w, payload)
        ELSE IF topic = TOPIC_CONFIG_FANCURVE THEN configFanCurve(w, payload)
        ELSE IF topic = TOPIC_MENU_SET THEN menuSet(w, payload)
        ELSE IF topic = TOPIC_MENU_GET THEN menuGet(w)
        ELSE IF topic = TOPIC_MENU_SAVE THEN menuSave(w)
        ELSE IF topic = TOPIC_RESTART THEN restart(w)
        ELSE w

\* ------------------------------------------------------------------------
\* Host link, inbound (mqtt_bridge.cpp:314-355)
\* ------------------------------------------------------------------------
\* any line that is not empty
fromAnyone(buf) == Len(buf) > 0

\* the line came from the host: it starts with the from-host marker
fromHost(buf) == Len(buf) > 0 /\ buf[1] = MSG_FROM_PI

\* the checksum field is where the code requires it: a delimiter that is
\* not the first character of the body, with two characters after it
crcFieldPresent(body) ==
    LET crcIdx == lastIndexOf(body, MSG_CRC_DELIM)
    IN  ~(crcIdx <= 0 \/ Len(body) - crcIdx # 3)

\* a comparison that always succeeds
crcAlwaysMatches(expected, actual) == TRUE

\* expected == actual
crcMatches(expected, actual) == expected = actual

\* the record of a newline: the line that ends was cut, or was not
lineEnds(cut) == IF cut = "cut" THEN "ended" ELSE "no"

\* a line that stays in the buffer when it ends
bufferKept(w) == [w EXCEPT !.lineCut = lineEnds(@)]

\* inputBuffer = "" at the end of a line
bufferCleared(w) == [w EXCEPT !.inputBuffer = <<>>, !.lineCut = lineEnds(@)]

\* a hostLine that dispatches a frame whose topic is empty
hostLineEmptyTopic(w) ==
    LET route(data, sepIndex) ==
            IF sepIndex >= 0
            THEN bufferCleared(processMessage(w, substring(data, 0, sepIndex),
                                              substringFrom(data, sepIndex + 1)))
            ELSE bufferCleared(w)
        verify(crcHex, data) ==
            IF ~crcMatches(strtoul16(crcHex), crc8(data))
            THEN serialPrintln(bufferCleared(w), TXT_CRC_FAIL)
            ELSE route(data, indexOf(data, MSG_SEPARATOR))
        split(body, crcIdx) ==
            IF ~crcFieldPresent(body)
            THEN serialPrintln(bufferCleared(w), TXT_CRC_MISSING)
            ELSE verify(substringFrom(body, crcIdx + 1), substring(body, 0, crcIdx))
        strip(body) == split(body, lastIndexOf(body, MSG_CRC_DELIM))
    IN  IF fromHost(w.inputBuffer)
        THEN strip(substringFrom(w.inputBuffer, 1))
        ELSE bufferCleared(w)

\* a complete line in inputBuffer (the newline has just been read)
hostLine(w) ==
    LET route(data, sepIndex) ==
            IF sepIndex > 0
            THEN bufferCleared(processMessage(w, substring(data, 0, sepIndex),
                                              substringFrom(data, sepIndex + 1)))
            ELSE bufferCleared(w)
        verify(crcHex, data) ==
            IF ~crcMatches(strtoul16(crcHex), crc8(data))
            THEN serialPrintln(bufferCleared(w), TXT_CRC_FAIL)
            ELSE route(data, indexOf(data, MSG_SEPARATOR))
        split(body, crcIdx) ==
            IF ~crcFieldPresent(body)
            THEN serialPrintln(bufferCleared(w), TXT_CRC_MISSING)
            ELSE verify(substringFrom(body, crcIdx + 1), substring(body, 0, crcIdx))
        strip(body) == split(body, lastIndexOf(body, MSG_CRC_DELIM))
    IN  IF fromHost(w.inputBuffer)
        THEN strip(substringFrom(w.inputBuffer, 1))
        ELSE bufferCleared(w)

\* a cap checked one byte late
overCapLate(length) == length > INPUT_BUFFER_CAP + 1

\* inputBuffer.length() > 512
overCap(length) == length > INPUT_BUFFER_CAP

\* inputBuffer += c, emptied when it grows past the cap
hostAppend(w, c) ==
    LET grown == Append(w.inputBuffer, c)
    IN  IF overCap(Len(grown))
        THEN [w EXCEPT !.inputBuffer = <<>>, !.lineCut = "cut"]
        ELSE [w EXCEPT !.inputBuffer = grown,
                       !.lineCut = IF @ = "ended" THEN "no" ELSE @]

\* one turn of the read loop, for the byte c
hostByte(w, c) ==
    IF c = CH_NEWLINE THEN hostLine(w)
    ELSE IF c # CH_RETURN THEN hostAppend(w, c)
    ELSE w

\* the read loop over bytes[lo..hi] in order, evaluated by halves; a
\* restart ends it
RECURSIVE hostBytes(_, _, _, _)
hostBytes(w, bytes, lo, hi) ==
    IF lo > hi \/ ~w.running THEN w
    ELSE IF lo = hi THEN hostByte(w, bytes[lo])
    ELSE LET mid == (lo + hi) \div 2
             left == hostBytes(w, bytes, lo, mid)
         IN  IF left.running THEN hostBytes(left, bytes, mid + 1, hi) ELSE left


\* ------------------------------------------------------------------------
\* Router: companion-device lines (mqtt_bridge.cpp:455-497, main.cpp:17-20)
\* ------------------------------------------------------------------------
ERROR_BUFFER_SIZE == 128

\* serializeJson into char buffer[128]: what does not fit is cut off
errorText(msg) ==
    LET text == serializeJson(JObj(<<[k |-> KEY_ERROR, v |-> JStr(msg)]>>))
    IN  IF Len(text) > ERROR_BUFFER_SIZE - 1
        THEN SubSeq(text, 1, ERROR_BUFFER_SIZE - 1) ELSE text

\* the LED retarget a reported token asks for
retargetByProto(w, proto) ==
    IF proto = PROTO_COLOR \/ proto = PROTO_HUEF \/ proto = PROTO_HUEB \/ proto = PROTO_BRIGHT
    THEN colorRetargeted(w)
    ELSE IF proto = PROTO_FACE
    THEN faceRetargeted(w)
    ELSE w

teensyParam(w, protoParam, value) ==
    LET i == findByProto(protoParam)
        m == paramMap[i]
        w1 == [w EXCEPT !.teensyMenu = storeMenuValue(w.teensyMenu, m, value)]
        w2 == publishParamStatus(w1, m, toUint8(value))
    IN  IF i # 0 THEN retargetByProto(w2, m.proto) ELSE w

\* the boop line taken for a report of the boopSensor parameter ("BOOP")
teensyBoopSensor(w, value) == teensyParam(w, <<66, 79, 79, 80>>, value)

teensyBooped(w, value) ==
    mqttBridgePublish(
        called([w EXCEPT !.ledStrips = ledStripsSetBooped(w.ledStrips, w.now, value # 0)],
               "ledStripsSetBooped", IF value # 0 THEN 1 ELSE 0),
        TOPIC_STATUS_BOOPED, IF value # 0 THEN TXT_ONE ELSE TXT_ZERO)

mqttBridgeHandleTeensyResponse(w, msg) ==
    LET eqIdx == indexOf(msg, CH_EQUALS)
        protoParam == trim(substring(msg, 0, eqIdx))
        value == toInt(substringFrom(msg, eqIdx + 1))
    IN  IF startsWith(msg, TXT_OK_SAVED)
        THEN mqttBridgePublish(w, TOPIC_MENU_SAVED, TXT_TRUE)
        ELSE IF startsWith(msg, TXT_ERR)
        THEN mqttBridgePublish(w, TOPIC_MENU_ERROR, errorText(msg))
        ELSE IF eqIdx > 0
        THEN IF protoParam = TXT_BOOPED THEN teensyBooped(w, value)
             ELSE teensyParam(w, protoParam, value)
        ELSE w

\* main.cpp onTeensyMessage
onTeensyMessage(w, msg) ==
    mqttBridgePublish(mqttBridgeHandleTeensyResponse(w, msg), TOPIC_TEENSY_RAW, msg)

\* ------------------------------------------------------------------------
\* Companion link, inbound (teensy_comm.cpp:16-33)
\* ------------------------------------------------------------------------
teensyLine(w) ==
    LET buf == w.teensyInputBuffer
        echoed == serialPrintln(w, TXT_TEENSY_TAG \o buf)
        logged == [echoed EXCEPT !.delivered = Append(echoed.delivered, buf)]
    IN  IF Len(buf) > 0
        THEN [onTeensyMessage(logged, buf) EXCEPT !.teensyInputBuffer = <<>>]
        ELSE [w EXCEPT !.teensyInputBuffer = <<>>]

TEENSY_BUFFER_CAP == 512

\* inputBuffer += c, emptied when it grows past the cap
teensyAppend(w, c) ==
    LET grown == Append(w.teensyInputBuffer, c)
    IN  IF Len(grown) > TEENSY_BUFFER_CAP
        THEN [w EXCEPT !.teensyInputBuffer = <<>>]
        ELSE [w EXCEPT !.teensyInputBuffer = grown]

teensyByte(w, c) ==
    IF c = CH_NEWLINE THEN teensyLine(w)
    ELSE IF c # CH_RETURN THEN teensyAppend(w, c)
    ELSE w

\* the read loop over bytes[lo..hi] in order, evaluated by halves; nothing
\* is read once the chip restarts
RECURSIVE teensyBytes(_, _, _, _)
teensyBytes(w, bytes, lo, hi) ==
    IF lo > hi \/ ~w.running THEN w
    ELSE IF lo = hi THEN teensyByte(w, bytes[lo])
    ELSE LET mid == (lo + hi) \div 2
             left == teensyBytes(w, bytes, lo, mid)
         IN  IF left.running THEN teensyBytes(left, bytes, mid + 1, hi) ELSE left


\* ------------------------------------------------------------------------
\* Start-up (main.cpp:81-101) and the handlers the loop calls
\* (main.cpp:154-156).
\* ------------------------------------------------------------------------
\* the firmware's state when setup() returns, given the persistent store
SetupWorld(p) ==
    LET cfg == fanCurveLoad(FanCurveDefaults, p)
    IN  [serialTx |-> <<PublishFrame(TOPIC_STATUS_ALIVE, TXT_TRUE),
                        PublishFrame(TOPIC_STATUS_FANCURVE, fanCurveConfigToJson(cfg))>>,
         serial1Tx |-> <<>>, inputBuffer |-> <<>>,
         piAlive |-> FALSE, lastPiHeartbeat |-> 0,
         teensyMenu |-> TeensyMenuDefaults, teensyInputBuffer |-> <<>>,
         config |-> cfg, prefs |-> p, fanSpeedPercent |-> 50,
         sensors |-> [temperature |-> 0, humidity |-> 0], lastSensorUpdate |-> 0,
         ledStrips |-> LedStripsInit, running |-> TRUE, now |-> 0,
         routed |-> <<>>, delivered |-> <<>>, lineCut |-> "no", heard |-> FALSE,
         calls |-> <<>>]

\* link: "host" or "teensy" when the step was a call of that link's handler,
\* "query" when it was a liveness query, "none" otherwise; bytes: the bytes the call read; was: the
\* firmware's state when the step began
Step(link, bytes, w) == [link |-> link, bytes |-> bytes, was |-> w]

\* fn: the function applied ("none" when the step applied none), arg: its
\* argument, out: its result
Computed(fn, arg, out) == [fn |-> fn, arg |-> arg, out |-> out]

\* the state after setup() has left the firmware in state w
InitWith(w) ==
        /\ serialRx = <<>>
        /\ serial1Rx = <<>>
        /\ serialTx = w.serialTx
        /\ serial1Tx = w.serial1Tx
        /\ inputBuffer = w.inputBuffer
        /\ piAlive = w.piAlive
        /\ lastPiHeartbeat = w.lastPiHeartbeat
        /\ teensyMenu = w.teensyMenu
        /\ teensyInputBuffer = w.teensyInputBuffer
        /\ config = w.config
        /\ prefs = w.prefs
        /\ fanSpeedPercent = w.fanSpeedPercent
        /\ sensors = w.sensors
        /\ lastSensorUpdate = w.lastSensorUpdate
        /\ ledStrips = w.ledStrips
        /\ running = w.running
        /\ now = w.now
        /\ routed = w.routed
        /\ delivered = w.delivered
        /\ lineCut = w.lineCut
        /\ heard = w.heard
        /\ calls = w.calls
        /\ consumed = Step("none", <<>>, w)
        /\ sends = 0
        /\ computed = Computed("none", <<>>, 0)

Init == InitWith(SetupWorld(PrefsEmpty))

\* The output records hold what the handler that ran last wrote and called.
CallWorld ==
    [World EXCEPT !.serialTx = <<>>, !.serial1Tx = <<>>,
                  !.routed = <<>>, !.delivered = <<>>, !.calls = <<>>]

\* the reboot after ESP.restart(): unread serial input is lost
setup ==
    /\ ~running
    /\ Install(SetupWorld(prefs))
    /\ now' = 0
    /\ serialRx' = <<>>
    /\ serial1Rx' = <<>>
    /\ consumed' = Step("none", <<>>, World)
    /\ UNCHANGED <<sends, computed>>

\* mqttBridgeProcess reading the first k of the bytes sent so far
mqttBridgeProcess(k) ==
    /\ running
    /\ k \in 1..Len(serialRx)
    /\ LET w == hostBytes(CallWorld, serialRx, 1, k)
       IN  /\ Install(w)
           /\ serialRx' = IF w.running THEN SubSeq(serialRx, k + 1, Len(serialRx)) ELSE <<>>
    /\ consumed' = Step("host", SubSeq(serialRx, 1, k), World)
    /\ UNCHANGED <<serial1Rx, now, sends, computed>>

\* teensyCommProcess reading the first k of the bytes sent so far
teensyCommProcess(k) ==
    /\ running
    /\ k \in 1..Len(serial1Rx)
    /\ Install(teensyBytes(CallWorld, serial1Rx, 1, k))
    /\ serial1Rx' = SubSeq(serial1Rx, k + 1, Len(serial1Rx))
    /\ consumed' = Step("teensy", SubSeq(serial1Rx, 1, k), World)
    /\ UNCHANGED <<serialRx, now, sends, computed>>

firmwareVars == <<serialTx, serial1Tx, inputBuffer, piAlive, lastPiHeartbeat,
                  teensyMenu, teensyInputBuffer, config, prefs, fanSpeedPercent,
                  sensors, lastSensorUpdate,
                  ledStrips, running, routed, delivered, lineCut, heard, calls>>

\* ------------------------------------------------------------------------
\* Environment: the host and the companion device send bytes, time passes.
\* ------------------------------------------------------------------------
MaxSends == 2

HostSend(chunk) ==
    /\ running
    /\ sends < MaxSends
    /\ serialRx = <<>>
    /\ serialRx' = chunk
    /\ sends' = sends + 1
    /\ consumed' = Step("none", <<>>, World)
    /\ UNCHANGED <<serial1Rx, now, computed>>
    /\ UNCHANGED firmwareVars

TeensySend(chunk) ==
    /\ running
    /\ sends < MaxSends
    /\ serial1Rx = <<>>
    /\ serial1Rx' = chunk
    /\ sends' = sends + 1
    /\ consumed' = Step("none", <<>>, World)
    /\ UNCHANGED <<serialRx, now, computed>>
    /\ UNCHANGED firmwareVars


\* the frame mqttBridgePublish formats for (topic, payload), sent by the
\* host: the same bytes under the from-host marker
HostFrame(topic, payload) == <<MSG_FROM_PI>> \o Tail(PublishFrame(topic, payload))

\* a companion-device line
TeensyLineBytes(text) == text \o <<CH_NEWLINE>>

\* {"param":"<name>","value":<value>}
menuSetPayload(name, value) ==
    serializeJson(JObj(<<[k |-> KEY_PARAM, v |-> JStr(name)],
                         [k |-> KEY_VALUE, v |-> JInt(value)]>>))

\* <TOKEN>=<value>
tokenLine(token, value) == token \o <<CH_EQUALS>> \o intToStr(value)

\* "Color"
NAME_UNKNOWN == <<67, 111, 108, 111, 114>>
\* "color"
PROTO_LOWER_COLOR == <<99, 111, 108, 111, 114>>
\* "BOOP"
PROTO_BOOP == <<66, 79, 79, 80>>
\* "VOLUME"
PROTO_UNKNOWN == <<86, 79, 76, 85, 77, 69>>
\* "150"
TXT_150 == <<49, 53, 48>>
\* "75"
TXT_75 == <<55, 53>>
\* "ERR bad"
TXT_ERR_LINE == <<69, 82, 82, 32, 98, 97, 100>>
\* "hello"
TXT_JUNK_LINE == <<104, 101, 108, 108, 111>>
\* "{"mode":"auto","temperature":[{"value":20,"fan":40}]}"
TXT_CURVE_CONFIG == <<123, 34, 109, 111, 100, 101, 34, 58, 34, 97, 117, 116, 111, 34, 44, 34, 116, 101, 109, 112, 101, 114, 97, 116, 117, 114, 101, 34, 58, 91, 123, 34, 118, 97, 108, 117, 101, 34, 58, 50, 48, 44, 34, 102, 97, 110, 34, 58, 52, 48, 125, 93, 125>>

\* The menu parameters and the values the environment sets them to: inside
\* the range, at and past maxValue, past 8 bits, and negative.
MenuSetNames == {NAME_FACE, NAME_BRIGHT, NAME_COLOR, NAME_UNKNOWN}
MenuSetValues == {-1, 3, 9, 300}
MenuSetMessages ==
    {<<TOPIC_MENU_SET, menuSetPayload(n, v)>> : n \in MenuSetNames, v \in MenuSetValues}

OtherHostMessages ==
    {<<TOPIC_MENU_GET, <<>>>>, <<TOPIC_MENU_SAVE, <<>>>>, <<TOPIC_SET_FAN, TXT_75>>,
     <<TOPIC_SET_FAN, TXT_150>>,
     <<TOPIC_SET_FANMODE, TXT_AUTO>>, <<TOPIC_CONFIG_FANCURVE, TXT_CURVE_CONFIG>>,
     <<TOPIC_RESTART, <<>>>>}

HostMessages == MenuSetMessages \cup OtherHostMessages
HostChunks == {HostFrame(m[1], m[2]) : m \in HostMessages}

TokenNames == {PROTO_FACE, PROTO_LOWER_COLOR, PROTO_BOOP, PROTO_UNKNOWN}
TokenValues == {1, 9, 300}
TeensyLines ==
    {tokenLine(t, v) : t \in TokenNames, v \in TokenValues}
    \cup {tokenLine(TXT_BOOPED, 1), tokenLine(TXT_BOOPED, 0),
          TXT_OK_SAVED, TXT_ERR_LINE, TXT_JUNK_LINE}
TeensyChunks == {TeensyLineBytes(l) : l \in TeensyLines}

\* ------------------------------------------------------------------------
\* Specification of the router: whole messages on both links, each handler
\* call reading everything that has arrived.
\* ------------------------------------------------------------------------
HostSendMessage == \E chunk \in HostChunks : HostSend(chunk)
TeensySendLine == \E chunk \in TeensyChunks : TeensySend(chunk)
ProcessHost == mqttBridgeProcess(Len(serialRx))
ProcessTeensy == teensyCommProcess(Len(serial1Rx))

Next ==
    \/ HostSendMessage
    \/ TeensySendLine
    \/ ProcessHost
    \/ ProcessTeensy
    \/ setup

Spec == Init /\ [][Next]_vars

\* ------------------------------------------------------------------------
\* Host link: short frames, and what noise on the line makes of them.
\* ------------------------------------------------------------------------
\* "t"
LINK_TOPIC == <<116>>
\* "p"
PAY_P == <<112>>
\* "a*b"
PAY_STAR == <<97, 42, 98>>
\* "a\tb"
PAY_TAB == <<97, 9, 98>>
\* "*41"
PAY_STAR_HEX == <<42, 52, 49>>
\* "hn"
PAY_ZERO_CRC == <<104, 110>>
\* "A9"
PAY_A9 == <<65, 57>>
\* "01>u\tx"
PAY_EMBEDDED == <<48, 49, 62, 117, 9, 120>>
\* "a*b\tc*d"
PAY_STARS_TABS == <<97, 42, 98, 9, 99, 42, 100>>

\* n filler bytes, each an 'x'
Filler(n) == [i \in 1..n |-> 120]

\* marker, topic, separator, payload, delimiter and two digits: the length of
\* the line that frames (topic, payload), the newline not counted
LineLength(topic, payload) == 1 + Len(topic) + 1 + Len(payload) + 3

\* the payloads that make the line of LINK_TOPIC as long as the buffer, and
\* one byte longer
PAY_LONGEST == Filler(INPUT_BUFFER_CAP - 6)
PAY_TOO_LONG == Filler(INPUT_BUFFER_CAP - 5)

LinkPayloads ==
    {<<>>, PAY_P, PAY_STAR, PAY_TAB, PAY_STAR_HEX, PAY_ZERO_CRC, PAY_A9,
     PAY_EMBEDDED, PAY_STARS_TABS, PAY_LONGEST, PAY_TOO_LONG}

MenuSetFace3 == <<TOPIC_MENU_SET, menuSetPayload(NAME_FACE, 3)>>

LinkMessages ==
    {<<LINK_TOPIC, p>> : p \in LinkPayloads}
    \cup {MenuSetFace3, <<TOPIC_SET_FAN, TXT_75>>}

\* the frame of each message, as the host sends it
FrameOf == [m \in LinkMessages |-> HostFrame(m[1], m[2])]

WellFormedChunks == {FrameOf[m] : m \in LinkMessages}

\* s with the byte at position i replaced by b
ReplaceAt(s, i, b) == [s EXCEPT ![i] = b]

\* the positions of the body (topic, separator, payload) in the frame of m
BodyPositions(m) == 2..(Len(m[1]) + Len(m[2]) + 2)

\* 'x', '*', tab, carriage return, newline
NoiseBytes == {120, MSG_CRC_DELIM, MSG_SEPARATOR, CH_RETURN, CH_NEWLINE}
NoisyMessages == {<<LINK_TOPIC, PAY_A9>>, <<LINK_TOPIC, PAY_EMBEDDED>>}
BodyNoiseChunks ==
    UNION {{ReplaceAt(FrameOf[m], i, b) : i \in BodyPositions(m), b \in NoiseBytes}
           : m \in NoisyMessages}

\* the frame f with the two characters of its checksum field replaced
WithField(f, a, b) == [f EXCEPT ![Len(f) - 2] = a, ![Len(f) - 1] = b]

\* '0', '1', '2', 'B', 'b'
FieldChars == {48, 49, 50, 66, 98}
ChecksumMessages == {<<LINK_TOPIC, PAY_A9>>, MenuSetFace3}
ChecksumNoiseChunks ==
    {WithField(FrameOf[m], a, b) : m \in ChecksumMessages, a \in FieldChars, b \in FieldChars}

\* "zz", "g0", "0g", " 0", "0x"
NonHexFields == {<<122, 122>>, <<103, 48>>, <<48, 103>>, <<32, 48>>, <<48, 120>>}
NonHexMessages == {<<LINK_TOPIC, PAY_ZERO_CRC>>, <<LINK_TOPIC, PAY_P>>}
NonHexChunks ==
    {WithField(FrameOf[m], x[1], x[2]) : m \in NonHexMessages, x \in NonHexFields}

\* a line from the host with the given body
HostLineBytes(body) == <<MSG_FROM_PI>> \o body \o <<CH_NEWLINE>>
\* "t\tp"
BODY_NO_DELIM == <<116, 9, 112>>
\* "t\tp*2"
BODY_ONE_DIGIT == <<116, 9, 112, 42, 50>>
\* "t\tp*026"
BODY_THREE_DIGITS == <<116, 9, 112, 42, 48, 50, 54>>
\* "*26"
BODY_DELIM_FIRST == <<42, 50, 54>>
\* "t\tp*"
BODY_DELIM_LAST == <<116, 9, 112, 42>>
\* "\tp*EA"
BODY_NO_TOPIC == <<9, 112, 42, 69, 65>>

TrailerChunks ==
    {HostLineBytes(b) : b \in {BODY_NO_DELIM, BODY_ONE_DIGIT, BODY_THREE_DIGITS,
                               BODY_DELIM_FIRST, BODY_DELIM_LAST, BODY_NO_TOPIC}}
\* "<t\tp*26\n"
LINE_TO_HOST == <<60, 116, 9, 112, 42, 50, 54, 10>>
\* "t\tp*26\n"
LINE_NO_MARKER == <<116, 9, 112, 42, 50, 54, 10>>
\* "\n"
LINE_EMPTY == <<10>>
\* "\r\n"
LINE_RETURN_ONLY == <<13, 10>>
\* " >t\tp*26\n"
LINE_SPACE_FIRST == <<32, 62, 116, 9, 112, 42, 50, 54, 10>>
\* "\r>t\tp*26\n"
LINE_RETURN_FIRST == <<13, 62, 116, 9, 112, 42, 50, 54, 10>>
\* ">t\t"
PART_HEAD == <<62, 116, 9>>
\* "p*26\n"
PART_TAIL == <<112, 42, 50, 54, 10>>
\* "x"
PART_OTHER == <<120>>

MarkerChunks ==
    {LINE_TO_HOST, LINE_NO_MARKER, LINE_EMPTY, LINE_RETURN_ONLY, LINE_SPACE_FIRST,
     LINE_RETURN_FIRST}
PartChunks == {PART_HEAD, PART_TAIL, PART_OTHER}

LinkChunks ==
    WellFormedChunks \cup BodyNoiseChunks \cup ChecksumNoiseChunks \cup NonHexChunks
    \cup TrailerChunks \cup MarkerChunks \cup PartChunks

HostSendLine == \E chunk \in LinkChunks : HostSend(chunk)

NextLink ==
    \/ HostSendLine
    \/ ProcessHost

SpecLink == Init /\ [][NextLink]_vars

\* ------------------------------------------------------------------------
\* Both links, one byte read per call, with lines longer than the buffers.
\* ------------------------------------------------------------------------
\* ">t\tp*26\n"
TAIL_FRAME == <<62, 116, 9, 112, 42, 50, 54, 10>>
\* "OK SAVED\n"
TAIL_SAVED == <<79, 75, 32, 83, 65, 86, 69, 68, 10>>

LongHostChunks ==
    {Filler(INPUT_BUFFER_CAP + 1) \o TAIL_FRAME,
     Filler(INPUT_BUFFER_CAP) \o <<CH_NEWLINE>>,
     FrameOf[<<LINK_TOPIC, PAY_TOO_LONG>>]}
LongTeensyChunks ==
    {Filler(TEENSY_BUFFER_CAP + 1) \o TAIL_SAVED,
     Filler(TEENSY_BUFFER_CAP) \o <<CH_NEWLINE>>}

HostSendLong == serial1Rx = <<>> /\ \E chunk \in LongHostChunks : HostSend(chunk)
TeensySendLong == serialRx = <<>> /\ \E chunk \in LongTeensyChunks : TeensySend(chunk)
ProcessHostByte == mqttBridgeProcess(1)
ProcessTeensyByte == teensyCommProcess(1)

NextOverflow ==
    \/ HostSendLong
    \/ TeensySendLong
    \/ ProcessHostByte
    \/ ProcessTeensyByte

SpecOverflow == Init /\ [][NextOverflow]_vars

\* ------------------------------------------------------------------------
\* The checksum function by itself, applied to byte sequences of a bounded
\* set: the empty one, every single byte, pairs and triples of bytes with
\* the high bit set and not, and the bodies of frames.
\* ------------------------------------------------------------------------
CrcSampleBytes == {0, 1, 7, 127, 128, 255}

CrcInputs ==
    {<<>>}
    \cup {<<b>> : b \in 0..255}
    \cup {<<a, b>> : a \in CrcSampleBytes, b \in CrcSampleBytes}
    \cup {<<a, b, c>> : a \in {0, 128, 255}, b \in {1, 128}, c \in {7, 255}}
    \cup {m[1] \o <<MSG_SEPARATOR>> \o m[2] : m \in HostMessages \cup LinkMessages}

firmwareAndLinks ==
    <<serialRx, serialTx, serial1Rx, serial1Tx, inputBuffer, piAlive,
      lastPiHeartbeat, teensyMenu, teensyInputBuffer, config, prefs,
      fanSpeedPercent, sensors, lastSensorUpdate, ledStrips, running, now, routed, delivered,
      lineCut, heard, calls, consumed, sends>>

\* crc8(data, len) called on its own
ApplyCrc8(data) ==
    /\ computed' = Computed("crc8", data, crc8(data))
    /\ UNCHANGED firmwareAndLinks

NextCrc == \E data \in CrcInputs : ApplyCrc8(data)

SpecCrc == Init /\ [][NextCrc]_vars

\* ------------------------------------------------------------------------
\* Host liveness (mqtt_bridge.cpp:357-362): messages arrive, time passes,
\* and the display code asks whether the host is alive.  The clock stays far
\* below the 2^32 ms at which millis() wraps, so that the unsigned
\* subtraction is the ordinary one.
\* ------------------------------------------------------------------------
\* millis() - lastPiHeartbeat > PI_TIMEOUT
timedOut(elapsed) == elapsed > PI_TIMEOUT

\* mqttBridgeIsPiAlive(): the flag is cleared when the timeout has run out,
\* and the flag is the answer
mqttBridgeIsPiAlive ==
    /\ running
    /\ piAlive' = IF piAlive /\ timedOut(now - lastPiHeartbeat)
                  THEN FALSE ELSE piAlive
    /\ computed' = Computed("isPiAlive", <<>>, piAlive')
    /\ consumed' = Step("query", <<>>, World)
    /\ UNCHANGED <<serialRx, serialTx, serial1Rx, serial1Tx, inputBuffer,
                   lastPiHeartbeat, teensyMenu, teensyInputBuffer, config, prefs,
                   fanSpeedPercent, sensors, lastSensorUpdate, ledStrips, running, now, routed, delivered,
                   lineCut, heard, calls, sends>>

\* the clock may run up to this many milliseconds
MaxNow == 10002

\* millis() advances by d
Pass(d) ==
    /\ now + d <= MaxNow
    /\ now' = now + d
    /\ consumed' = Step("none", <<>>, World)
    /\ UNCHANGED <<serialRx, serial1Rx, sends, computed>>
    /\ UNCHANGED firmwareVars

PassSteps == {4999, 5000, 5001}

\* a recognised topic, an unknown topic, and "menu set" with a payload that
\* does not parse
BeatMessages ==
    {<<TOPIC_MENU_SAVE, <<>>>>, <<LINK_TOPIC, PAY_P>>, <<TOPIC_MENU_SET, TXT_JUNK_LINE>>}

HostSendBeat == \E m \in BeatMessages : HostSend(HostFrame(m[1], m[2]))
TimePasses == \E d \in PassSteps : Pass(d)

NextAlive ==
    \/ HostSendBeat
    \/ ProcessHost
    \/ TimePasses
    \/ mqttBridgeIsPiAlive

SpecAlive == Init /\ [][NextAlive]_vars

\* ------------------------------------------------------------------------
\* The menu: every registered parameter set by the host and reported by the
\* companion device with values inside its range, and the messages and
\* lines that name no parameter or are malformed.
\* ------------------------------------------------------------------------
\* the values tried for parameter i: 0, its maxValue, and 3 for face and color
MenuValuesInRange(i) ==
    {0, paramMap[i].maxVal}
    \cup (IF paramMap[i].camel \in {NAME_FACE, NAME_COLOR} THEN {3} ELSE {})

\* (index in paramMap, value)
MenuSettings == UNION {{<<i, v>> : v \in MenuValuesInRange(i)} : i \in 1..paramMapSize}

\* the "menu set" message and the companion-device line of a setting
MenuSetOf(a) == <<TOPIC_MENU_SET, menuSetPayload(paramMap[a[1]].camel, a[2])>>
TokenLineOf(a) == tokenLine(paramMap[a[1]].proto, a[2])

\* "=5"
TXT_NO_TOKEN == <<61, 53>>
\* "{"param":"
PAYLOAD_NOT_JSON == <<123, 34, 112, 97, 114, 97, 109, 34, 58>>
\* "{"value":3}"
PAYLOAD_NO_NAME == <<123, 34, 118, 97, 108, 117, 101, 34, 58, 51, 125>>
\* "{"param":"face"}"
PAYLOAD_NO_VALUE == <<123, 34, 112, 97, 114, 97, 109, 34, 58, 34, 102, 97, 99, 101, 34, 125>>
\* "{"param":"face","value":"abc"}"
PAYLOAD_TEXT_VALUE == <<123, 34, 112, 97, 114, 97, 109, 34, 58, 34, 102, 97, 99, 101, 34, 44, 34, 118, 97, 108, 117, 101, 34, 58, 34, 97, 98, 99, 34, 125>>
\* "{"param":5,"value":3}"
PAYLOAD_NAME_NUMBER == <<123, 34, 112, 97, 114, 97, 109, 34, 58, 53, 44, 34, 118, 97, 108, 117, 101, 34, 58, 51, 125>>

\* a "menu set" that names no registered parameter
UnknownMenuSet == <<TOPIC_MENU_SET, menuSetPayload(NAME_UNKNOWN, 3)>>

\* companion-device lines that are no report of a registered token: an
\* unknown token, no '=', nothing before the '='
UnknownLines == {tokenLine(PROTO_UNKNOWN, 3), TXT_JUNK_LINE, TXT_NO_TOKEN}

\* "menu set" payloads that are malformed: no JSON, no name, a name that is
\* no text, no value, a value that is no integer
MalformedPayloads ==
    {PAYLOAD_NOT_JSON, PAYLOAD_NO_NAME, PAYLOAD_NAME_NUMBER, PAYLOAD_NO_VALUE,
     PAYLOAD_TEXT_VALUE}

MenuMessages ==
    {MenuSetOf(a) : a \in MenuSettings}
    \cup {UnknownMenuSet}
    \cup {<<TOPIC_MENU_SET, p>> : p \in MalformedPayloads}

MenuLines == {TokenLineOf(a) : a \in MenuSettings} \cup UnknownLines

HostSendMenu == \E m \in MenuMessages : HostSend(HostFrame(m[1], m[2]))
TeensySendMenu == \E l \in MenuLines : TeensySend(TeensyLineBytes(l))

NextMenu ==
    \/ HostSendMenu
    \/ TeensySendMenu
    \/ ProcessHost
    \/ ProcessTeensy

SpecMenu == Init /\ [][NextMenu]_vars

\* ------------------------------------------------------------------------
\* Properties.  They read the step taken last from `consumed`: the link
\* whose handler ran, the bytes it read, and the state it began in.
\* ------------------------------------------------------------------------
\* the last step was a call of mqttBridgeProcess that began with an empty line
\* buffer and read exactly these bytes
HostRead(bytes) ==
    /\ consumed.link = "host"
    /\ consumed.was.inputBuffer = <<>>
    /\ consumed.bytes = bytes

\* the diagnostics, as they appear on the host link
IntegrityError == TXT_CRC_FAIL \o <<CH_RETURN, CH_NEWLINE>>
FramingError == TXT_CRC_MISSING \o <<CH_RETURN, CH_NEWLINE>>

\* the call left MenuState, the fan configuration and speed, the persistent
\* store, host liveness and the animation target as it found them
StateKept ==
    /\ teensyMenu = consumed.was.teensyMenu
    /\ config = consumed.was.config
    /\ prefs = consumed.was.prefs
    /\ fanSpeedPercent = consumed.was.fanSpeedPercent
    /\ piAlive = consumed.was.piAlive
    /\ lastPiHeartbeat = consumed.was.lastPiHeartbeat
    /\ ledStrips = consumed.was.ledStrips
    /\ running = consumed.was.running

\* no tab, carriage return or newline in s
Clean(s) == \A i \in 1..Len(s) : s[i] \notin {MSG_SEPARATOR, CH_RETURN, CH_NEWLINE}

\* the body and the checksum field of a frame <marker> body * H H <newline>
FrameBody(f) == SubSeq(f, 2, Len(f) - 4)
FrameField(f) == SubSeq(f, Len(f) - 2, Len(f) - 1)

\* the chunk is one line: it ends with the only newline in it
OneLine(bytes) ==
    /\ Len(bytes) > 0
    /\ bytes[Len(bytes)] = CH_NEWLINE
    /\ \A i \in 1..(Len(bytes) - 1) : bytes[i] # CH_NEWLINE

\* the characters of that line: carriage returns are skipped
LineOf(bytes) ==
    SelectSeq(SubSeq(bytes, 1, Len(bytes) - 1), LAMBDA c : c # CH_RETURN)

\* C1: after any sequence of host "menu set" messages and companion-device
\* TOKEN=value lines, every value stored in MenuState lies in [0, maxValue]
\* of its parameter.
MenuStateInRange ==
    \A i \in 1..paramMapSize :
        teensyMenu[paramMap[i].field] \in 0..paramMap[i].maxVal

\* "set face to 9" has been routed, and the face stored is 9, past the 8
\* that is the parameter's maxValue
FaceStoredPastMax ==
    /\ consumed.link = "host"
    /\ routed = <<<<TOPIC_MENU_SET, menuSetPayload(NAME_FACE, 9)>>>>
    /\ teensyMenu.face = 9

\* C2: a "menu set" message processed right after the same message was
\* processed leaves MenuState as the first processing left it and sends the
\* companion device the same commands.
MenuSetIdempotent ==
    (/\ consumed.link = "host"
     /\ Len(routed) = 1
     /\ routed[1][1] = TOPIC_MENU_SET
     /\ consumed.was.routed = routed)
    => /\ teensyMenu = consumed.was.teensyMenu
       /\ serial1Tx = consumed.was.serial1Tx

\* the valid message "set face to 3" has been processed twice in a row, and
\* the second processing sent its SET command
MenuSetRepeated ==
    /\ consumed.link = "host"
    /\ routed = <<<<TOPIC_MENU_SET, menuSetPayload(NAME_FACE, 3)>>>>
    /\ consumed.was.routed = routed
    /\ teensyMenu.face = 3
    /\ Len(serial1Tx) = 1

\* the frame of m fits the line buffer
Fits(m) == LineLength(m[1], m[2]) <= INPUT_BUFFER_CAP

\* the frame of m was read, by itself, and accepted: its checksum field is
\* the checksum of its body, the Router got (topic, payload) and nothing
\* else, and no diagnostic was written
Accepted(m) ==
    /\ strtoul16(FrameField(FrameOf[m])) = crc8(FrameBody(FrameOf[m]))
    /\ routed = <<m>>
    /\ \A i \in 1..Len(serialTx) : serialTx[i] \notin {IntegrityError, FramingError}

\* C3, as the specification states it: for every non-empty topic and every
\* payload, both free of tab, carriage return and newline, the frame that
\* publish formats, sent under the from-host marker, is accepted and the
\* Router receives the original (topic, payload).
RoundTrip ==
    \A m \in LinkMessages :
        (m[1] # <<>> /\ Clean(m[1]) /\ Clean(m[2]) /\ HostRead(FrameOf[m]))
        => Accepted(m)

\* C3, amended: the same, for the frames whose line (marker, topic,
\* separator, payload, delimiter, two digits) is at most 512 bytes long.
RoundTripWithinCap ==
    \A m \in LinkMessages :
        (m[1] # <<>> /\ Clean(m[1]) /\ Clean(m[2]) /\ Fits(m) /\ HostRead(FrameOf[m]))
        => Accepted(m)

\* the frame whose line is exactly 512 bytes long has been read and routed
LongestFrameRouted ==
    /\ HostRead(FrameOf[<<LINK_TOPIC, PAY_LONGEST>>])
    /\ routed = <<<<LINK_TOPIC, PAY_LONGEST>>>>

\* bytes is the frame of m with the body byte at position i, and no other
\* byte, replaced by a different one
BodyByteReplaced(bytes, m, i) ==
    /\ Len(bytes) = Len(FrameOf[m])
    /\ bytes[i] # FrameOf[m][i]
    /\ \A j \in 1..Len(bytes) : j # i => bytes[j] = FrameOf[m][j]

\* the call wrote the checksum-mismatch diagnostic and routed nothing
Mismatch == serialTx = <<IntegrityError>> /\ routed = <<>>

\* C4, as the specification states it: replacing any single byte of the
\* body of a well-formed frame by any different byte makes the parser report
\* a checksum mismatch and dispatch nothing.
BodyNoiseDetected ==
    \A m \in LinkMessages : \A i \in BodyPositions(m) :
        (/\ Fits(m)
         /\ consumed.link = "host"
         /\ consumed.was.inputBuffer = <<>>
         /\ BodyByteReplaced(consumed.bytes, m, i))
        => Mismatch

\* C4, amended: the same, when the replacing byte is neither a carriage
\* return nor a newline.
BodyNoiseDetectedUnlessLineBreak ==
    \A m \in LinkMessages : \A i \in BodyPositions(m) :
        (/\ Fits(m)
         /\ consumed.link = "host"
         /\ consumed.was.inputBuffer = <<>>
         /\ BodyByteReplaced(consumed.bytes, m, i)
         /\ consumed.bytes[i] \notin {CH_RETURN, CH_NEWLINE})
        => Mismatch

\* the frame of ("t", "A9") with its '9' replaced by 'x' has been read and
\* reported
BodyNoiseReported ==
    /\ HostRead(ReplaceAt(FrameOf[<<LINK_TOPIC, PAY_A9>>], 5, 120))
    /\ Mismatch

\* bytes is the frame of m with its checksum field replaced by two hex
\* digits whose value is not the checksum of the body
ChecksumReplaced(bytes, m) ==
    /\ Len(bytes) = Len(FrameOf[m])
    /\ SubSeq(bytes, 1, Len(bytes) - 3) = SubSeq(FrameOf[m], 1, Len(bytes) - 3)
    /\ bytes[Len(bytes)] = CH_NEWLINE
    /\ hexValue(bytes[Len(bytes) - 2]) >= 0
    /\ hexValue(bytes[Len(bytes) - 1]) >= 0
    /\ 16 * hexValue(bytes[Len(bytes) - 2]) + hexValue(bytes[Len(bytes) - 1])
         # crc8(FrameBody(FrameOf[m]))

\* C5: a frame whose checksum field has been corrupted, so that it no longer
\* equals the checksum of the body, is dropped: the checksum-mismatch
\* diagnostic is written, the Router is not invoked, and MenuState, the fan
\* configuration, host liveness and the animation target are unchanged.
CorruptedChecksumDropped ==
    \A m \in LinkMessages :
        (/\ Fits(m)
         /\ consumed.link = "host"
         /\ consumed.was.inputBuffer = <<>>
         /\ ChecksumReplaced(consumed.bytes, m))
        => /\ Mismatch
           /\ serial1Tx = <<>>
           /\ StateKept

\* after a message has been routed, the frame of "set face to 3" with
\* checksum field "00" has been read and dropped
CorruptedMenuSetDropped ==
    /\ consumed.was.piAlive
    /\ HostRead(WithField(FrameOf[MenuSetFace3], 48, 48))
    /\ ChecksumReplaced(consumed.bytes, MenuSetFace3)
    /\ Mismatch

\* the body ends with the delimiter and exactly two hexadecimal digits
EndsWithChecksum(body) ==
    /\ Len(body) >= 3
    /\ body[Len(body) - 2] = MSG_CRC_DELIM
    /\ hexValue(body[Len(body) - 1]) >= 0
    /\ hexValue(body[Len(body)]) >= 0

\* C6: a line from the host is dispatched only if its body contains the
\* checksum delimiter followed by exactly two hexadecimal digits; a line
\* with no delimiter, with another number of characters after it, or with
\* two characters after it that are not both hex digits, is discarded with
\* the framing diagnostic and never reaches the Router.
UnframedLineDiscarded ==
    (/\ consumed.link = "host"
     /\ consumed.was.inputBuffer = <<>>
     /\ OneLine(consumed.bytes)
     /\ Len(LineOf(consumed.bytes)) \in 1..INPUT_BUFFER_CAP
     /\ LineOf(consumed.bytes)[1] = MSG_FROM_PI
     /\ ~EndsWithChecksum(Tail(LineOf(consumed.bytes))))
    => /\ serialTx = <<FramingError>>
       /\ routed = <<>>

\* the line ">t<tab>hn*zz" has been read, and ("t", "hn") routed
NonHexFieldRouted ==
    /\ HostRead(WithField(FrameOf[<<LINK_TOPIC, PAY_ZERO_CRC>>], 122, 122))
    /\ routed = <<<<LINK_TOPIC, PAY_ZERO_CRC>>>>

\* C7: nothing is handed to the Router from a line of which the cap has
\* discarded a part, whatever the line contains.
NoPartialDispatch ==
    (consumed.link = "host" /\ lineCut = "ended") => routed = <<>>

\* the newline of a line cut at the cap has been read, and what followed
\* the cut has been routed as the message ("t", "p")
TailOfCutLineRouted ==
    /\ consumed.link = "host"
    /\ consumed.bytes = <<CH_NEWLINE>>
    /\ lineCut = "ended"
    /\ routed = <<<<LINK_TOPIC, PAY_P>>>>

\* C8: after each byte read, the line buffer of the host link and the line
\* buffer of the companion link each hold at most 512 bytes.
BuffersWithinCap ==
    /\ Len(inputBuffer) <= 512
    /\ Len(teensyInputBuffer) <= 512

\* both buffers have been emptied at the cap: the host link's while reading
\* the line that ended last, the companion link's by the byte just read
BothBuffersCut ==
    /\ lineCut = "ended"
    /\ consumed.link = "teensy"
    /\ Len(consumed.was.teensyInputBuffer) = 512
    /\ consumed.bytes = <<120>>
    /\ teensyInputBuffer = <<>>

\* the line the newline just read has ended: what the buffer held, then the
\* characters of the chunk
EndedLine == consumed.was.inputBuffer \o LineOf(consumed.bytes)

\* C9: a newline-terminated line of the host link whose first byte is not
\* the from-host marker (an empty line and a line that starts with the
\* to-host marker included) is discarded silently: no diagnostic, nothing
\* dispatched, nothing commanded, no state changed.
UnmarkedLineIgnored ==
    (/\ consumed.link = "host"
     /\ OneLine(consumed.bytes)
     /\ Len(EndedLine) <= INPUT_BUFFER_CAP
     /\ (EndedLine = <<>> \/ EndedLine[1] # MSG_FROM_PI))
    => /\ serialTx = <<>>
       /\ routed = <<>>
       /\ serial1Tx = <<>>
       /\ inputBuffer = <<>>
       /\ StateKept

\* after a message has been routed, a line that starts with the to-host
\* marker and is otherwise a valid frame has been read and ignored
ToHostLineIgnored ==
    /\ consumed.was.piAlive
    /\ HostRead(LINE_TO_HOST)
    /\ serialTx = <<>>
    /\ routed = <<>>

\* the position of the last delimiter of the line, and of its first separator
LastDelimiter(line) == SetMax({i \in 1..Len(line) : line[i] = MSG_CRC_DELIM})
FirstSeparator(line) == SetMin({i \in 1..Len(line) : line[i] = MSG_SEPARATOR})

\* the payload holds a delimiter or a separator
DelimiterInside(payload) ==
    \E i \in 1..Len(payload) : payload[i] \in {MSG_CRC_DELIM, MSG_SEPARATOR}

\* C10: for a frame whose payload holds the delimiter '*' or further
\* separators and whose trailing '*HH' is the checksum of the whole body,
\* the Router receives as topic the bytes before the first separator and as
\* payload all the bytes between it and the last '*', unmodified.  Stated
\* for the frames that fit the 512-byte line buffer.
DelimitersInPayloadKept ==
    \A m \in LinkMessages :
        (DelimiterInside(m[2]) /\ Fits(m) /\ HostRead(FrameOf[m]))
        => LET line == LineOf(consumed.bytes)
               star == LastDelimiter(line)
               sep == FirstSeparator(line)
           IN  /\ routed = <<<<SubSeq(line, 2, sep - 1), SubSeq(line, sep + 1, star - 1)>>>>
               /\ routed = <<m>>

\* the frame of ("t", "a*b<tab>c*d") has been read and routed whole
StarredPayloadRouted ==
    /\ HostRead(FrameOf[<<LINK_TOPIC, PAY_STARS_TABS>>])
    /\ routed = <<<<LINK_TOPIC, PAY_STARS_TABS>>>>

\* the firmware's state with the records of the last call's output emptied
OutputsEmptied(w) ==
    [w EXCEPT !.serialTx = <<>>, !.serial1Tx = <<>>, !.routed = <<>>,
              !.delivered = <<>>, !.calls = <<>>]

\* the last byte the call read was a newline
ReadNewlineLast ==
    /\ Len(consumed.bytes) > 0
    /\ consumed.bytes[Len(consumed.bytes)] = CH_NEWLINE

\* C11: once a newline has been read on the host link the line buffer is
\* empty, whatever became of the line; and a well-formed frame read next is
\* accepted and has the effect of its message on the state the firmware was
\* in, nothing of an earlier line taking part.
RejectedLineForgotten ==
    /\ (consumed.link = "host" /\ ReadNewlineLast) => inputBuffer = <<>>
    /\ \A m \in LinkMessages :
           (Fits(m) /\ HostRead(FrameOf[m]))
           => /\ Accepted(m)
              /\ [World EXCEPT !.lineCut = "no"]
                   = [processMessage(OutputsEmptied(consumed.was), m[1], m[2])
                        EXCEPT !.lineCut = "no"]

\* the call before wrote the checksum-mismatch diagnostic and routed
\* nothing; this call read the frame of "set face to 3" and routed it
FrameAfterRejectedLineRouted ==
    /\ consumed.was.serialTx = <<IntegrityError>>
    /\ consumed.was.routed = <<>>
    /\ HostRead(FrameOf[MenuSetFace3])
    /\ routed = <<MenuSetFace3>>
    /\ teensyMenu.face = 3
    /\ inputBuffer = <<>>

\* CRC-8/SMBUS by its definition: polynomial 0x07, initial value 0, the
\* most significant bit first, no reflection, no final XOR
crc8ShiftBit(crc) ==
    IF crc >= 128 THEN BitXor((crc * 2) % 256, 7) ELSE crc * 2

RECURSIVE crc8ShiftBits(_, _)
crc8ShiftBits(crc, n) ==
    IF n = 0 THEN crc ELSE crc8ShiftBits(crc8ShiftBit(crc), n - 1)

crc8ReferenceByte(crc, byte) == crc8ShiftBits(BitXor(crc, byte), 8)

RECURSIVE crc8ReferenceLoop(_, _, _, _)
crc8ReferenceLoop(crc, data, lo, hi) ==
    IF lo > hi THEN crc
    ELSE IF lo = hi THEN crc8ReferenceByte(crc, data[lo])
    ELSE LET mid == (lo + hi) \div 2
             left == crc8ReferenceLoop(crc, data, lo, mid)
         IN  IF left \in 0..255 THEN crc8ReferenceLoop(left, data, mid + 1, hi) ELSE left

crc8Reference(data) == crc8ReferenceLoop(0, data, 1, Len(data))

\* the uppercase hexadecimal digit of n in 0..15
UpperHexDigit(n) == IF n < 10 THEN 48 + n ELSE 55 + n

\* marker, topic, separator, payload, delimiter, the two uppercase digits of
\* the reference checksum of "topic SEP payload", high nibble first, newline
ExpectedFrame(topic, payload) ==
    LET c == crc8Reference(topic \o <<MSG_SEPARATOR>> \o payload)
    IN  <<MSG_TO_PI>> \o topic \o <<MSG_SEPARATOR>> \o payload \o <<MSG_CRC_DELIM>>
        \o <<UpperHexDigit(c \div 16), UpperHexDigit(c % 16)>> \o <<CH_NEWLINE>>

\* f ends with the delimiter, the two uppercase digits of the reference
\* checksum of what stands between the marker and the delimiter, and a newline
FrameSealed(f) ==
    /\ Len(f) >= 5
    /\ f[Len(f)] = CH_NEWLINE
    /\ f[Len(f) - 3] = MSG_CRC_DELIM
    /\ LET c == crc8Reference(SubSeq(f, 2, Len(f) - 4))
       IN  /\ f[Len(f) - 2] = UpperHexDigit(c \div 16)
           /\ f[Len(f) - 1] = UpperHexDigit(c % 16)

\* C12: publish(topic, payload) writes exactly the to-host marker, topic,
\* the separator, payload, the delimiter, two uppercase hexadecimal digits,
\* high nibble first, and a newline; the digits are the CRC of
\* "topic SEP payload", marker, delimiter and newline excluded.
PublishedFrameExact ==
    /\ \A i \in 1..Len(serialTx) :
           serialTx[i][1] = MSG_TO_PI => FrameSealed(serialTx[i])
    /\ (consumed.link = "teensy" /\ Len(delivered) = 1)
          => serialTx[Len(serialTx)] = ExpectedFrame(TOPIC_TEENSY_RAW, delivered[1])
    /\ (consumed.link = "host" /\ routed = <<<<TOPIC_SET_FANMODE, TXT_AUTO>>>>)
          => serialTx = <<ExpectedFrame(TOPIC_STATUS_FANCURVE, fanCurveConfigToJson(config))>>

\* the companion-device line "BOOPED=1" has been handed over, and the frame
\* that republishes it as a raw message has been written
RawLinePublished ==
    /\ consumed.link = "teensy"
    /\ delivered = <<tokenLine(TXT_BOOPED, 1)>>
    /\ serialTx[Len(serialTx)] = ExpectedFrame(TOPIC_TEENSY_RAW, tokenLine(TXT_BOOPED, 1))

\* C13: the table-driven crc8 equals CRC-8/SMBUS as defined (polynomial
\* 0x07, initial value 0, most significant bit first, no reflection, no
\* final XOR) on every byte sequence it was applied to; each of the 256
\* table entries is the reference checksum of its single byte; the checksum
\* of the empty sequence is 0.
CrcMatchesReference ==
    /\ computed.fn = "crc8" => computed.out = crc8Reference(computed.arg)
    /\ \A b \in 0..255 : crc8Table[b + 1] = crc8Reference(<<b>>)
    /\ (computed.fn = "crc8" /\ computed.arg = <<>>) => computed.out = 0

\* crc8 has been applied to the body of the "menu get" message, and the
\* result is 0x17
MenuGetBodySummed ==
    /\ computed.fn = "crc8"
    /\ computed.arg = TOPIC_MENU_GET \o <<MSG_SEPARATOR>>
    /\ computed.out = 23

\* C14: every host message handed to the Router, whatever its topic and
\* whether or not its payload parses, marks the host alive and sets the time
\* of the last host message to the current time.
RoutedMessageStampsHost ==
    (consumed.link = "host" /\ routed # <<>>)
    => /\ piAlive
       /\ lastPiHeartbeat = now

\* 5000 ms after start-up a message of unknown topic has been routed: the
\* host, not alive before, is alive and the time recorded is 5000
UnknownTopicStampsHost ==
    /\ consumed.link = "host"
    /\ ~consumed.was.piAlive
    /\ routed = <<<<LINK_TOPIC, PAY_P>>>>
    /\ piAlive
    /\ lastPiHeartbeat = 5000

\* C15: a liveness query reports the host alive exactly when a host message
\* has been dispatched and less than 5000 ms have passed since the last one.
AliveWithinTimeout ==
    (consumed.link = "query" /\ computed.fn = "isPiAlive")
    => (computed.out <=> (heard /\ now - lastPiHeartbeat < PI_TIMEOUT))

\* a query made exactly 5000 ms after the last host message has reported
\* the host alive
AliveAtTimeout ==
    /\ consumed.link = "query"
    /\ computed.fn = "isPiAlive"
    /\ heard
    /\ now - lastPiHeartbeat = PI_TIMEOUT
    /\ computed.out = TRUE

\* "{"mode":"manual","
TXT_MODE_MANUAL == <<123, 34, 109, 111, 100, 101, 34, 58, 34, 109, 97, 110, 117, 97, 108, 34, 44>>

\* the host link carries one frame, the fan configuration republished, and
\* its payload begins with the mode "manual"
ManualRepublished ==
    /\ Len(serialTx) = 1
    /\ startsWith(serialTx[1], <<MSG_TO_PI>> \o TOPIC_STATUS_FANCURVE
                                \o <<MSG_SEPARATOR>> \o TXT_MODE_MANUAL)

\* the fan speeds the host asks for, as text and as the integer parsed
FanSpeedsAsked == {<<TXT_75, 75, 75>>, <<TXT_150, 150, 100>>}

\* C16: from any fan mode, a "set fan speed" message forces the fan mode to
\* manual, persists the configuration with the auto flag cleared, invokes
\* the fan-speed side effect with the parsed integer, then republishes the
\* fan configuration, which shows mode "manual"; in that order.
SetFanForcesManual ==
    \A a \in FanSpeedsAsked :
        (consumed.link = "host" /\ routed = <<<<TOPIC_SET_FAN, a[1]>>>>)
        => /\ ~config.autoMode
           /\ prefs.isKey /\ ~prefs.auto
           /\ fanSpeedPercent = a[3]
           /\ ManualRepublished
           /\ calls = << <<"fanCurveSetAutoMode", 0>>, <<"fanCurveSave", 0>>,
                         <<"onFanSpeed", a[2]>>, <<"mqttBridgePublish", 0>> >>

\* in auto mode, with the auto flag persisted, "set fan speed 75" has been
\* routed: the mode is manual, the flag persisted is cleared, the fan runs
\* at 75
SetFanLeftAutoMode ==
    /\ consumed.link = "host"
    /\ consumed.was.config.autoMode
    /\ consumed.was.prefs.auto
    /\ routed = <<<<TOPIC_SET_FAN, TXT_75>>>>
    /\ ~config.autoMode
    /\ ~prefs.auto
    /\ fanSpeedPercent = 75
    /\ ManualRepublished

\* "SET FACE 3\r\n"
CMD_SET_FACE_3 == <<83, 69, 84, 32, 70, 65, 67, 69, 32, 51, 13, 10>>

\* the parameters whose change retargets the animation
ColorNames == {NAME_COLOR, NAME_HUEF, NAME_HUEB, NAME_BRIGHT}

\* the animation targets are the values MenuState holds
ColorTargeted ==
    /\ ledStrips.targetColor = teensyMenu.color
    /\ ledStrips.targetHueF = teensyMenu.hueF
    /\ ledStrips.targetHueB = teensyMenu.hueB
    /\ ledStrips.targetBright
         = (IF teensyMenu.bright > MAX_BRIGHTNESS THEN MAX_BRIGHTNESS ELSE teensyMenu.bright)

\* the retarget that the parameter of name p calls for, and no other
RetargetedFor(p) ==
    IF p \in ColorNames
    THEN calls = << <<"ledStripsSetColor", 0>> >> /\ ColorTargeted
    ELSE IF p = NAME_FACE
    THEN calls = << <<"ledStripsSetFace", 0>> >> /\ ledStrips.targetFace = teensyMenu.face
    ELSE calls = <<>> /\ ledStrips = consumed.was.ledStrips

\* C17: a "menu set" that names a registered parameter p with a value v in
\* [0, maxValue(p)] sets MenuState[p] to v, changes no other entry, sends
\* the companion device exactly one command "SET <token(p)> <v>", and
\* retargets the animation if and only if p is color, hueF, hueB, bright or
\* face.
MenuSetStoresAndForwards ==
    \A a \in MenuSettings :
        (consumed.link = "host" /\ routed = <<MenuSetOf(a)>>)
        => /\ teensyMenu = [consumed.was.teensyMenu EXCEPT ![paramMap[a[1]].field] = a[2]]
           /\ serial1Tx = <<TXT_SET \o paramMap[a[1]].proto \o <<CH_SPACE>>
                              \o intToStr(a[2]) \o <<CH_RETURN, CH_NEWLINE>> >>
           /\ RetargetedFor(paramMap[a[1]].camel)

\* with the face at 0, "set face to 3" has been routed: the face is 3, the
\* command "SET FACE 3" has gone out, and the face of the animation is 3
FaceSetAndRetargeted ==
    /\ consumed.link = "host"
    /\ consumed.was.teensyMenu.face = 0
    /\ routed = <<<<TOPIC_MENU_SET, menuSetPayload(NAME_FACE, 3)>>>>
    /\ teensyMenu.face = 3
    /\ serial1Tx = <<CMD_SET_FACE_3>>
    /\ calls = << <<"ledStripsSetFace", 0>> >>
    /\ ledStrips.targetFace = 3

\* what the companion link writes to the host for a line that the Router
\* ignores: the debug echo, and the line republished raw by main.cpp
EchoedOnly(line) ==
    /\ serialTx = <<TXT_TEENSY_TAG \o line \o <<CH_RETURN, CH_NEWLINE>>,
                    ExpectedFrame(TOPIC_TEENSY_RAW, line)>>
    /\ calls = << <<"mqttBridgePublish", 0>> >>

\* MenuState and the animation are as the call found them, and nothing was
\* sent to the companion device
MenuUntouched ==
    /\ teensyMenu = consumed.was.teensyMenu
    /\ ledStrips = consumed.was.ledStrips
    /\ serial1Tx = <<>>

\* C18: a "menu set" that names a parameter absent from the registry, a
\* companion-device TOKEN=value line whose token is absent from it, and any
\* other unrecognised companion-device line are ignored by the Router:
\* MenuState is unchanged, no command is sent to the companion device, no
\* parameter status, ack or error is published, and the animation is not
\* retargeted.
UnknownParameterIgnored ==
    /\ (consumed.link = "host" /\ routed = <<UnknownMenuSet>>)
          => MenuUntouched /\ serialTx = <<>> /\ calls = <<>>
    /\ \A line \in UnknownLines :
           (consumed.link = "teensy" /\ delivered = <<line>>)
           => MenuUntouched /\ EchoedOnly(line)

\* after the face was set to 3, the line "VOLUME=3" has been handed over:
\* the face is still 3 and only the echo and the raw line were written
UnknownTokenIgnored ==
    /\ consumed.link = "teensy"
    /\ delivered = <<tokenLine(PROTO_UNKNOWN, 3)>>
    /\ consumed.was.teensyMenu.face = 3
    /\ teensyMenu.face = 3
    /\ Len(serialTx) = 2
    /\ serial1Tx = <<>>

\* "SET FACE 0\r\n"
CMD_SET_FACE_0 == <<83, 69, 84, 32, 70, 65, 67, 69, 32, 48, 13, 10>>

\* C19: a "menu set" whose payload is malformed (not parseable, no
\* parameter name, no value, a value that is no integer) is ignored:
\* MenuState is unchanged, no command is sent to the companion device and
\* the animation is not retargeted.
MalformedMenuSetIgnored ==
    \A p \in MalformedPayloads :
        (consumed.link = "host" /\ routed = <<<<TOPIC_MENU_SET, p>>>>)
        => MenuUntouched /\ calls = <<>>

\* with the face at 3, the "menu set" {"param":"face"}, which has no value,
\* has been routed: the face is 0 and the command "SET FACE 0" has gone out
MissingValueStoredAsZero ==
    /\ consumed.link = "host"
    /\ consumed.was.teensyMenu.face = 3
    /\ routed = <<<<TOPIC_MENU_SET, PAYLOAD_NO_VALUE>>>>
    /\ teensyMenu.face = 0
    /\ serial1Tx = <<CMD_SET_FACE_0>>
    /\ calls = << <<"ledStripsSetFace", 0>> >>

\* ------------------------------------------------------------------------
\* Parameter status for a companion-device TOKEN=value line
\* ------------------------------------------------------------------------
\* "{"value":"
TXT_STATUS_OPEN == <<123, 34, 118, 97, 108, 117, 101, 34, 58>>
\* ","label":""
TXT_STATUS_LABEL == <<44, 34, 108, 97, 98, 101, 108, 34, 58, 34>>
\* """
TXT_STATUS_LABEL_END == <<34>>
\* "}"
TXT_STATUS_CLOSE == <<125>>
\* "COLOR=3"
TXT_COLOR_3 == <<67, 79, 76, 79, 82, 61, 51>>
\* "{"value":3,"label":"WHITE"}"
TXT_STATUS_WHITE == <<123, 34, 118, 97, 108, 117, 101, 34, 58, 51, 44, 34, 108, 97, 98, 101, 108, 34, 58, 34, 87, 72, 73, 84, 69, 34, 125>>
\* "protogen/visor/teensy/menu/status/color"
TOPIC_STATUS_COLOR == <<112, 114, 111, 116, 111, 103, 101, 110, 47, 118, 105, 115, 111, 114, 47, 116, 101, 101, 110, 115, 121, 47, 109, 101, 110, 117, 47, 115, 116, 97, 116, 117, 115, 47, 99, 111, 108, 111, 114>>

\* the decimal text of n in 0..999, written digit by digit
DecimalText(n) ==
    IF n < 10 THEN <<48 + n>>
    ELSE IF n < 100 THEN <<48 + (n \div 10), 48 + (n % 10)>>
    ELSE <<48 + (n \div 100), 48 + ((n \div 10) % 10), 48 + (n % 10)>>

\* the status text of value v for registry entry m: the value, and the
\* v-th label exactly when the entry is enumerated
StatusText(m, v) ==
    TXT_STATUS_OPEN \o DecimalText(v)
    \o (IF m.labels # <<>>
        THEN TXT_STATUS_LABEL \o m.labels[v + 1] \o TXT_STATUS_LABEL_END
        ELSE <<>>)
    \o TXT_STATUS_CLOSE

\* C20: for every registered token T and every v in the range of its
\* parameter, the companion-device line T=v stores v in the MenuState entry
\* of the parameter (every other entry keeps its value) and publishes exactly
\* one per-parameter status, on the status topic of the parameter's external
\* name, whose "value" is the stored value and which carries a "label", the
\* v-th label of the parameter, exactly when the parameter is enumerated.
TokenLinePublishesStatus ==
    \A a \in MenuSettings :
        (consumed.link = "teensy" /\ delivered = <<TokenLineOf(a)>>)
        => LET m == paramMap[a[1]]
           IN  /\ teensyMenu = [consumed.was.teensyMenu EXCEPT ![m.field] = a[2]]
               /\ serialTx =
                    << TXT_TEENSY_TAG \o TokenLineOf(a) \o <<CH_RETURN, CH_NEWLINE>>,
                       ExpectedFrame(TOPIC_MENU_STATUS_PREFIX \o m.camel,
                                     StatusText(m, teensyMenu[m.field])),
                       ExpectedFrame(TOPIC_TEENSY_RAW, TokenLineOf(a)) >>
               /\ serial1Tx = <<>>

\* the line COLOR=3 has been handled with the color at 0 before: the color
\* is 3 and the status {"value":3,"label":"WHITE"} is out on .../status/color
ColorThreeReportedWhite ==
    /\ consumed.link = "teensy"
    /\ delivered = <<TXT_COLOR_3>>
    /\ consumed.was.teensyMenu.color = 0
    /\ teensyMenu.color = 3
    /\ Len(serialTx) = 3
    /\ serialTx[2] = ExpectedFrame(TOPIC_STATUS_COLOR, TXT_STATUS_WHITE)

\* ------------------------------------------------------------------------
\* The boop line of the companion device
\* ------------------------------------------------------------------------
\* C21: a companion-device boop line BOOPED=v sets the startle flag of the
\* animation to the reported state (v # 0) through ledStripsSetBooped,
\* publishes the boop notification ("1" or "0" on .../status/booped) to the
\* host, and changes no MenuState entry, the boopSensor parameter (token
\* BOOP) included.
BoopLineSetsStartle ==
    \A v \in {0, 1} :
        (consumed.link = "teensy" /\ delivered = <<tokenLine(TXT_BOOPED, v)>>)
        => /\ ledStrips.targetBooped = (v # 0)
           /\ teensyMenu = consumed.was.teensyMenu
           /\ calls = << <<"ledStripsSetBooped", v>>, <<"mqttBridgePublish", 0>>,
                         <<"mqttBridgePublish", 0>> >>
           /\ serialTx =
                << TXT_TEENSY_TAG \o tokenLine(TXT_BOOPED, v) \o <<CH_RETURN, CH_NEWLINE>>,
                   ExpectedFrame(TOPIC_STATUS_BOOPED, <<48 + v>>),
                   ExpectedFrame(TOPIC_TEENSY_RAW, tokenLine(TXT_BOOPED, v)) >>
           /\ serial1Tx = <<>>

\* BOOPED=0 has been handled while the animation was startled and the
\* boopSensor parameter was 1: the flag is down and boopSensor is still 1
BoopEndedSensorKept ==
    /\ consumed.link = "teensy"
    /\ delivered = <<tokenLine(TXT_BOOPED, 0)>>
    /\ consumed.was.teensyMenu.boopSensor = 1
    /\ consumed.was.ledStrips.targetBooped
    /\ ~ledStrips.targetBooped
    /\ teensyMenu.boopSensor = 1
    /\ Len(serialTx) = 3

\* ------------------------------------------------------------------------
\* The parameter schema
\* ------------------------------------------------------------------------
\* "":{"min":0,"max":"
TXT_SCHEMA_MIN == <<34, 58, 123, 34, 109, 105, 110, 34, 58, 48, 44, 34, 109, 97, 120, 34, 58>>
\* ","type":""
TXT_SCHEMA_TYPE == <<44, 34, 116, 121, 112, 101, 34, 58, 34>>
\* "","options":["
TXT_SCHEMA_OPTIONS == <<34, 44, 34, 111, 112, 116, 105, 111, 110, 115, 34, 58, 91>>
\* ""microphone":{"min":0,"max":1,"type":"toggle","options":["OFF","ON"]}"
TXT_SCHEMA_MICROPHONE == <<34, 109, 105, 99, 114, 111, 112, 104, 111, 110, 101, 34, 58, 123, 34, 109, 105, 110, 34, 58, 48, 44, 34, 109, 97, 120, 34, 58, 49, 44, 34, 116, 121, 112, 101, 34, 58, 34, 116, 111, 103, 103, 108, 101, 34, 44, 34, 111, 112, 116, 105, 111, 110, 115, 34, 58, 91, 34, 79, 70, 70, 34, 44, 34, 79, 78, 34, 93, 125>>

\* the classification of a registry entry
SchemaType(m) ==
    IF m.maxVal <= 1 THEN TXT_TOGGLE
    ELSE IF m.labels # <<>> /\ m.maxVal > 1 THEN TXT_SELECT
    ELSE TXT_RANGE

\* the labels numbered j..n of a registry entry, quoted, with commas between
RECURSIVE SchemaOptions(_, _, _)
SchemaOptions(m, j, n) ==
    IF j > n THEN <<>>
    ELSE <<34>> \o m.labels[j + 1] \o <<34>>
         \o (IF j < n THEN <<44>> ELSE <<>>) \o SchemaOptions(m, j + 1, n)

\* "<name>":{"min":0,"max":<maxValue>,"type":"<type>"} and, when the entry
\* has labels, "options" with the labels numbered 0..maxValue
SchemaEntryText(m) ==
    <<34>> \o m.camel \o TXT_SCHEMA_MIN \o DecimalText(m.maxVal)
    \o TXT_SCHEMA_TYPE \o SchemaType(m)
    \o (IF m.labels # <<>>
        THEN TXT_SCHEMA_OPTIONS \o SchemaOptions(m, 0, m.maxVal) \o <<93>>
        ELSE <<34>>)
    \o <<125>>

RECURSIVE SchemaEntries(_)
SchemaEntries(i) ==
    IF i > paramMapSize THEN <<>>
    ELSE SchemaEntryText(paramMap[i])
         \o (IF i < paramMapSize THEN <<44>> ELSE <<>>) \o SchemaEntries(i + 1)

SchemaText == <<123>> \o SchemaEntries(1) \o <<125>>

\* s occurs in t at offset k
OccursAt(s, t, k) == k + Len(s) <= Len(t) /\ SubSeq(t, k + 1, k + Len(s)) = s

\* C22: the schema that publishSchema emits has, for every entry of the
\* parameter table, min = 0, max = maxValue, the type "toggle" if
\* maxValue <= 1, "select" if the entry has labels and maxValue > 1 and
\* "range" otherwise, and, exactly when the entry has labels, the options:
\* its maxValue + 1 labels in order.
SchemaClassifiesEntries ==
    (consumed.link = "host" /\ routed = <<<<TOPIC_MENU_GET, <<>>>>>>)
    => /\ serialTx = <<ExpectedFrame(TOPIC_MENU_SCHEMA, SchemaText)>>
       /\ \A i \in 1..paramMapSize :
            paramMap[i].labels # <<>> => Len(paramMap[i].labels) = paramMap[i].maxVal + 1

\* a "menu get" has been routed and the schema on the host link has the
\* entry of the microphone toggle with its two options
SchemaPublishedWithToggle ==
    /\ consumed.link = "host"
    /\ routed = <<<<TOPIC_MENU_GET, <<>>>>>>
    /\ Len(serialTx) = 1
    /\ \E k \in 1..Len(serialTx[1]) : OccursAt(TXT_SCHEMA_MICROPHONE, serialTx[1], k)

\* ------------------------------------------------------------------------
\* The target frame and the classification of a configuration, each applied
\* on its own to the animation inputs (led_strips.cpp:79-85, 119-167).
\* ------------------------------------------------------------------------
FrameFaces == {0, 1, 3, 5}
FrameColors == (0..13) \cup {255}
FrameHues == {0, 85, 254}
FrameTimes == {0, 1230, 2565}

\* the static variables with the given targets
Targeting(booped, face, color, hueF, hueB) ==
    [LedStripsInit EXCEPT !.targetBooped = booped, !.targetFace = face,
                          !.targetColor = color, !.targetHueF = hueF,
                          !.targetHueB = hueB]

FrameInput(booped, face, color, hueF, hueB, t) ==
    [booped |-> booped, face |-> face, color |-> color, hueF |-> hueF,
     hueB |-> hueB, now |-> t]

ApplyComputeTargetFrame(booped, face, color, hueF, hueB, t) ==
    /\ computed' = Computed("computeTargetFrame",
                            FrameInput(booped, face, color, hueF, hueB, t),
                            computeTargetFrame(Targeting(booped, face, color, hueF, hueB), t))
    /\ UNCHANGED firmwareAndLinks

ApplyIsContinuous(booped, face, color, hueF, hueB) ==
    /\ computed' = Computed("isContinuous",
                            FrameInput(booped, face, color, hueF, hueB, 0),
                            isContinuous(Targeting(booped, face, color, hueF, hueB)))
    /\ UNCHANGED firmwareAndLinks

\* each function is applied once, to inputs drawn from the sets above
NextFrame ==
    /\ computed.fn = "none"
    /\ \E booped \in BOOLEAN, face \in FrameFaces, color \in FrameColors,
          hueF \in FrameHues, hueB \in FrameHues :
           \/ \E t \in FrameTimes :
                ApplyComputeTargetFrame(booped, face, color, hueF, hueB, t)
           \/ ApplyIsContinuous(booped, face, color, hueF, hueB)

SpecFrame == Init /\ [][NextFrame]_vars

\* the rotating rainbow sweep at time t: on every strip, pixel i (from 0) has
\* the rainbow colour of the hue (t / 10 - 3 * i) mod 256
SweepPixel(t, i) == hsv2rgb_rainbow((((t \div 10) % 256) + 1024 - (3 * i)) % 256, 240, 255)
RainbowSweep(t) ==
    [s \in 1..NUM_STRIPS |-> [i \in 1..stripCount[s] |-> SweepPixel(t, i - 1)]]

\* C23: whenever startleActive is true, the target frame the animation
\* computes is the rotating rainbow sweep, for every colorMode, hueFront,
\* hueBack and expression.
StartleIsRainbowSweep ==
    (computed.fn = "computeTargetFrame" /\ computed.arg.booped)
    => computed.out = RainbowSweep(computed.arg.now)

\* the target frame was computed with the startle up, the expression ANGRY
\* and the colorMode WHITE: its first pixels are those of the sweep, not red
StartledWhileAngry ==
    /\ computed.fn = "computeTargetFrame"
    /\ computed.arg = FrameInput(TRUE, 1, 3, 0, 85, 1230)
    /\ computed.out[1][1] = SweepPixel(1230, 0)
    /\ computed.out[1][2] = SweepPixel(1230, 1)
    /\ computed.out[1][1] # CRGB(255, 0, 0)
    /\ computed.out[1][1] # computed.out[1][2]

\* ------------------------------------------------------------------------
\* The animation on its own: the router's calls of ledStripsSetColor,
\* ledStripsSetBooped and ledStripsSetFace, the loop's calls of
\* ledStripsUpdate (main.cpp:159), and time passing between them.
\* ------------------------------------------------------------------------
\* the build converts a negative float to uint8_t one way or the other
InitLed ==
    \E negativeToUint8 \in {"wraps", "zero"} :
        InitWith([SetupWorld(PrefsEmpty) EXCEPT !.ledStrips = LedStripsBuild(negativeToUint8)])

\* the environment makes at most this many retarget calls
MaxLedCalls == 2
\* and the clock runs up to this many milliseconds
MaxLedNow == 668

\* (colorIndex, hueF, hueB, bright): WHITE at two brightnesses (200 is above
\* MAX_BRIGHTNESS) and the BASE wave
LedColorTargets == {<<3, 0, 0, 75>>, <<3, 0, 0, 200>>, <<0, 0, 85, 75>>}
LedFaces == {0, 1}
LedSteps == {333, 334}

\* what an animation call leaves alone
ledUnchanged ==
    <<serialRx, serialTx, serial1Rx, serial1Tx, inputBuffer, piAlive,
      lastPiHeartbeat, teensyMenu, teensyInputBuffer, config, prefs,
      fanSpeedPercent, sensors, lastSensorUpdate, running, now, routed, delivered, lineCut, heard, calls>>

\* the static variables as a call finds them
LedCall == [ledStrips EXCEPT !.wrote = FALSE]

LedSetColor(t) ==
    /\ sends < MaxLedCalls
    /\ ledStrips' = ledStripsSetColor(LedCall, now, t[1], t[2], t[3], t[4])
    /\ sends' = sends + 1
    /\ computed' = Computed("ledStripsSetColor", t, 0)
    /\ consumed' = Step("led", <<>>, World)
    /\ UNCHANGED ledUnchanged

LedSetBooped(booped) ==
    /\ sends < MaxLedCalls
    /\ ledStrips' = ledStripsSetBooped(LedCall, now, booped)
    /\ sends' = sends + 1
    /\ computed' = Computed("ledStripsSetBooped", booped, 0)
    /\ consumed' = Step("led", <<>>, World)
    /\ UNCHANGED ledUnchanged

LedSetFace(face) ==
    /\ sends < MaxLedCalls
    /\ ledStrips' = ledStripsSetFace(LedCall, now, face)
    /\ sends' = sends + 1
    /\ computed' = Computed("ledStripsSetFace", face, 0)
    /\ consumed' = Step("led", <<>>, World)
    /\ UNCHANGED ledUnchanged

LedUpdate ==
    /\ ledStrips' = ledStripsUpdate(LedCall, now)
    /\ computed' = Computed("ledStripsUpdate", <<>>, 0)
    /\ consumed' = Step("led", <<>>, World)
    /\ UNCHANGED ledUnchanged
    /\ UNCHANGED sends

LedPass(d) ==
    /\ now + d <= MaxLedNow
    /\ now' = now + d
    /\ consumed' = Step("none", <<>>, World)
    /\ UNCHANGED <<serialRx, serial1Rx, sends, computed>>
    /\ UNCHANGED firmwareVars

NextLed ==
    \/ \E t \in LedColorTargets : LedSetColor(t)
    \/ LedSetBooped(TRUE)
    \/ \E face \in LedFaces : LedSetFace(face)
    \/ LedUpdate
    \/ \E d \in LedSteps : LedPass(d)

SpecLed == InitLed /\ [][NextLed]_vars

\* ------------------------------------------------------------------------
\* Properties of the animation.  They read the call made last from
\* `computed`, and the static variables it found from `consumed`.
\* ------------------------------------------------------------------------
\* the step taken last was a call of this function of led_strips.cpp
LedCalled(fn) == consumed.link = "led" /\ computed.fn = fn

\* the static variables the call found
LedWas == consumed.was.ledStrips

\* the snapshot buffer of L, strip by strip
SnapshotStrips(L) ==
    [s \in 1..NUM_STRIPS |-> [i \in 1..stripCount[s] |-> L.snapshot[stripOffset[s] + i]]]

\* the frame update made last found the engine activated and a transition
\* active, elapsed milliseconds after its start
SampledAt(elapsed) ==
    /\ LedCalled("ledStripsUpdate")
    /\ LedWas.ready
    /\ LedWas.transActive
    /\ now - LedWas.transStart = elapsed

\* C24: for every transition, the output sampled at elapsed time 0 is the
\* state displayed before (the snapshot pixels at the brightness the
\* transition started from), and the output sampled at an elapsed time of
\* 667 ms or more is exactly the new target frame at the target brightness,
\* with no blend left, and the transition is inactive from then on.
TransitionEndsOnTarget ==
    /\ SampledAt(0)
       => /\ ledStrips.wrote
          /\ ledStrips.shown = [leds |-> SnapshotStrips(LedWas),
                                bright |-> LedWas.transFromBright]
    /\ \A elapsed \in TRANSITION_MS..MaxLedNow :
        SampledAt(elapsed)
        => /\ ledStrips.wrote
           /\ ledStrips.shown = [leds |-> computeTargetFrame(ledStrips, now),
                                 bright |-> ledStrips.targetBright]
           /\ ~ledStrips.transActive

\* a transition that ledStripsSetFace or ledStripsSetBooped started before
\* the first activation has been completed by a frame update after it: the
\* strips are written at the brightness 75 the engine started with, while
\* the target brightness is 150
StaleTransitionEndsDim ==
    /\ \E elapsed \in TRANSITION_MS..MaxLedNow : SampledAt(elapsed)
    /\ ~ledStrips.transActive
    /\ ledStrips.targetBright = 150
    /\ ledStrips.shown.bright = 75
    /\ ledStrips.outputBright = 75

\* the strips show the plain target frame of L at its target brightness
PlainTarget(L, t) ==
    L.shown = [leds |-> computeTargetFrame(L, t), bright |-> L.targetBright]

\* the call made last was the first activation: ledStripsSetColor found the
\* engine not yet ready
FirstActivation == LedCalled("ledStripsSetColor") /\ ~LedWas.ready

\* the all-off snapshot the engine starts with
SnapshotBlack(L) == \A i \in 1..LED_TOTAL_COUNT : L.snapshot[i] = CRGB_Black

\* C25: the first activation snaps to the target with zero transition: the
\* strips show the plain target frame at the target brightness after it,
\* and so does the frame update that follows it, whatever expression or
\* startle changes came before the activation.
FirstActivationSnaps ==
    [][FirstActivation
       => /\ PlainTarget(ledStrips, now)
          /\ (consumed'.link = "led" /\ computed'.fn = "ledStripsUpdate")
             => PlainTarget(ledStrips', now')]_vars

\* the frame update after the first activation blends from the all-off
\* snapshot of a transition that an expression or startle change started
\* before the activation: the strips do not show the target frame
StaleTransitionBlends ==
    /\ LedCalled("ledStripsUpdate")
    /\ LedWas.ready /\ LedWas.transActive
    /\ SnapshotBlack(LedWas)
    /\ now - LedWas.transStart < TRANSITION_MS
    /\ ledStrips.wrote
    /\ ledStrips.shown.leds # computeTargetFrame(ledStrips, now)

\* the retarget call made last changed one of the six animation inputs of
\* the engine it found: a colour target changes the colour mode, a hue or
\* the brightness capped at MAX_BRIGHTNESS
RetargetChanged ==
    \/ /\ LedCalled("ledStripsSetColor")
       /\ \/ computed.arg[1] # LedWas.targetColor
          \/ computed.arg[2] # LedWas.targetHueF
          \/ computed.arg[3] # LedWas.targetHueB
          \/ (IF computed.arg[4] > MAX_BRIGHTNESS THEN MAX_BRIGHTNESS ELSE computed.arg[4])
                # LedWas.targetBright
    \/ LedCalled("ledStripsSetBooped") /\ computed.arg # LedWas.targetBooped
    \/ LedCalled("ledStripsSetFace") /\ computed.arg # LedWas.targetFace

\* the step taken last was a retarget call that found the engine activated
RetargetAfterActivation ==
    /\ \/ LedCalled("ledStripsSetColor")
       \/ LedCalled("ledStripsSetBooped")
       \/ LedCalled("ledStripsSetFace")
    /\ LedWas.ready

\* C26: after the first activation, a retarget call that changes the colour
\* mode, a hue, the capped brightness, the expression or the startle flag
\* copies the pixels displayed then into the snapshot and starts a
\* transition (active, started now, from the brightness displayed); a
\* retarget call that changes none of them leaves the snapshot and the
\* transition as they were and writes nothing.
RetargetStartsTransition ==
    RetargetAfterActivation
    => IF RetargetChanged
       THEN /\ SnapshotStrips(ledStrips) = LedWas.shown.leds
            /\ ledStrips.transActive
            /\ ledStrips.transStart = now
            /\ ledStrips.transFromBright = LedWas.shown.bright
            /\ ledStrips.transToBright = ledStrips.targetBright
       ELSE /\ ledStrips.snapshot = LedWas.snapshot
            /\ ledStrips.transActive = LedWas.transActive
            /\ ledStrips.transStart = LedWas.transStart
            /\ ledStrips = [LedWas EXCEPT !.wrote = FALSE]

\* an expression change after the activation took the white frame
\* displayed then as its snapshot
ExpressionChangeSnapshotsWhite ==
    /\ LedCalled("ledStripsSetFace")
    /\ LedWas.ready
    /\ computed.arg = 1
    /\ LedWas.targetFace = 0
    /\ LedWas.shown.leds[1][1] = <<255, 255, 255>>
    /\ ledStrips.snapshot[1] = <<255, 255, 255>>
    /\ ledStrips.transActive

\* ------------------------------------------------------------------------
\* Properties of the classification and of the choice of the target frame.
\* ------------------------------------------------------------------------
\* the expressions with an override colour: 1 is ANGRY, 5 is SAD
FACE_ANGRY == 1
FACE_SAD == 5

\* the priority category of the animation inputs a: 1 startle, 2 expression
\* override, 3 animated palette, 4 base wave, 5 the rest
Category(a) ==
    IF a.booped THEN 1
    ELSE IF a.face \in {FACE_ANGRY, FACE_SAD} THEN 2
    ELSE IF a.color \in COLOR_RAINBOW..COLOR_HORIZONTALRAINBOW THEN 3
    ELSE IF a.color = COLOR_BASE THEN 4
    ELSE 5

\* C27, as stated: a configuration is classified continuous exactly when it
\* is in category 1, 2 or 3, or in category 4 with hueFront # hueBack.
ContinuousInCategoriesOneToThree ==
    computed.fn = "isContinuous"
    => (computed.out
        <=> \/ Category(computed.arg) \in {1, 2, 3}
            \/ Category(computed.arg) = 4 /\ computed.arg.hueF # computed.arg.hueB)

\* C27, amended: a configuration is classified continuous exactly when it is
\* in category 1 or 3, or in category 4 with hueFront # hueBack; category 2
\* (an expression override without startle) is classified static, as is
\* everything else.
ContinuousWhenFrameMoves ==
    computed.fn = "isContinuous"
    => (computed.out
        <=> \/ Category(computed.arg) \in {1, 3}
            \/ Category(computed.arg) = 4 /\ computed.arg.hueF # computed.arg.hueB)

\* the ANGRY override over the animated palette RAINBOW, no startle, was
\* classified static
AngryOverrideClassifiedStatic ==
    /\ computed.fn = "isContinuous"
    /\ computed.arg = FrameInput(FALSE, FACE_ANGRY, COLOR_RAINBOW, 0, 85, 0)
    /\ Category(computed.arg) = 2
    /\ computed.out = FALSE

\* the animation inputs held by the static variables L
LedInputs(L) ==
    FrameInput(L.targetBooped, L.targetFace, L.targetColor, L.targetHueF, L.targetHueB, 0)

\* the configuration of L is one the engine recomputes every frame: startle,
\* an animated palette, or the base wave with two hues
LedContinuous(L) ==
    \/ Category(LedInputs(L)) \in {1, 3}
    \/ Category(LedInputs(L)) = 4 /\ L.targetHueF # L.targetHueB

\* C28: a frame update writes the strips if and only if the engine has been
\* activated and the configuration is continuous, a transition is active or
\* a redraw is pending; so in a static configuration with the transition
\* completed and the redraw served an update changes nothing, and stays so
\* until a retarget call changes the inputs.
UpdateWritesWhenNeeded ==
    LedCalled("ledStripsUpdate")
    => /\ ledStrips.wrote
          <=> /\ LedWas.ready
              /\ \/ LedContinuous(LedWas)
                 \/ LedWas.transActive
                 \/ LedWas.needsRedraw
       /\ ~ledStrips.wrote => ledStrips = [LedWas EXCEPT !.wrote = FALSE]
       /\ ledStrips.wrote => ~ledStrips.needsRedraw

\* a frame update found the activated engine showing solid white, no
\* transition and no redraw pending, and wrote nothing
StaticFrameSkipped ==
    /\ LedCalled("ledStripsUpdate")
    /\ LedWas.ready
    /\ Category(LedInputs(LedWas)) = 5
    /\ ~LedWas.transActive /\ ~LedWas.needsRedraw
    /\ ~ledStrips.wrote
    /\ ledStrips.shown.leds[1][1] = <<255, 255, 255>>

\* a frame with every pixel of every strip in one colour
Solid(color) == [s \in 1..NUM_STRIPS |-> [i \in 1..stripCount[s] |-> color]]

\* the colour of a hue at full saturation and value
HueColor(hue) == hsv2rgb_rainbow(hue, 255, 255)

\* the two-hue wave at time t: pixel i (from 0) of every strip is the blend
\* of the colours of the two hues by the sine of its position and the time
TwoHueWave(hueF, hueB, t) ==
    [s \in 1..NUM_STRIPS |->
        [i \in 1..stripCount[s] |->
            blend(HueColor(hueF), HueColor(hueB), waveAmount(i - 1, t))]]

\* the solid colours of the colour modes YELLOW .. BLUE (1..7)
TableColor(color) ==
    CASE color = 1 -> <<255, 255, 0>>
      [] color = 2 -> <<255, 165, 0>>
      [] color = 3 -> <<255, 255, 255>>
      [] color = 4 -> <<0, 255, 0>>
      [] color = 5 -> <<255, 0, 255>>
      [] color = 6 -> <<255, 0, 0>>
      [] color = 7 -> <<0, 0, 255>>
      [] OTHER -> <<0, 0, 0>>

\* the frame the first matching rule gives for the animation inputs a
FrameByPriority(a) ==
    CASE Category(a) = 1 -> RainbowSweep(a.now)
      [] Category(a) = 2 -> IF a.face = FACE_ANGRY THEN Solid(<<255, 0, 0>>)
                            ELSE Solid(<<0, 0, 255>>)
      [] Category(a) = 3 -> RainbowSweep(a.now)
      [] Category(a) = 4 -> IF a.hueF # a.hueB THEN TwoHueWave(a.hueF, a.hueB, a.now)
                            ELSE Solid(HueColor(a.hueF))
      [] OTHER -> Solid(TableColor(a.color))

\* C29: for every combination of startle, expression, colorMode, hueFront and
\* hueBack the target frame is the one of the first matching rule: startle
\* gives the rainbow sweep; ANGRY solid red and SAD solid blue; an animated
\* palette the rainbow sweep; the base wave the two-hue wave, or solid
\* hueFront when the hues are equal; a colorMode of the solid table its
\* colour; any other colorMode black.
TargetFrameByFirstRule ==
    computed.fn = "computeTargetFrame"
    => computed.out = FrameByPriority(computed.arg)

\* the SAD override over the animated palette FLOWNOISE gave solid blue, not
\* the sweep
SadOverridesPalette ==
    /\ computed.fn = "computeTargetFrame"
    /\ computed.arg = FrameInput(FALSE, FACE_SAD, 10, 85, 254, 2565)
    /\ computed.out = Solid(<<0, 0, 255>>)
    /\ computed.out # RainbowSweep(2565)

\* the brightness between from and to at the eased ratio (in units of
\* 1 / EASE_ONE), the fraction of the distance rounded toward from
InterpolatedBright(from, to, ratio) ==
    IF to >= from THEN from + ((to - from) * ratio) \div EASE_ONE
    ELSE from - ((from - to) * ratio) \div EASE_ONE

Distance(a, b) == IF a >= b THEN a - b ELSE b - a

\* the frame update made last sampled an active transition before its end
SampledInFlight ==
    \E elapsed \in 0..(TRANSITION_MS - 1) : SampledAt(elapsed)

\* C30: while a transition is active the output brightness is the
\* interpolation from fromBrightness to toBrightness by the eased ratio: at
\* every sampled frame it lies between the two, bounds included, and is no
\* farther from toBrightness than the brightness shown before, for
\* toBrightness above and below fromBrightness alike.
BrightnessInterpolates ==
    SampledInFlight
    => LET from == LedWas.transFromBright
           to == LedWas.transToBright
           out == ledStrips.shown.bright
       IN  /\ out = InterpolatedBright(from, to, cosineEase(now - LedWas.transStart))
           /\ (from <= out /\ out <= to) \/ (to <= out /\ out <= from)
           /\ Distance(to, out) <= Distance(to, LedWas.shown.bright)

\* half way through the fade from brightness 150 down to 75 the strips are
\* still written at 150: the build converts the negative step to 0
FadeDownStuckAtStart ==
    /\ SampledAt(333)
    /\ LedWas.transFromBright = 150 /\ LedWas.transToBright = 75
    /\ InterpolatedBright(150, 75, cosineEase(333)) = 113
    /\ ledStrips.negativeToUint8 = "zero"
    /\ ledStrips.wrote
    /\ ledStrips.shown.bright = 150

\* C31: a transition started at time t is inactive after the first frame
\* update at a time of t + TRANSITION_MS or later, whatever the engine's
\* state was when the transition started, before the first activation
\* included.
TransitionInactiveAfterDuration ==
    (/\ LedCalled("ledStripsUpdate")
     /\ LedWas.transActive
     /\ now - LedWas.transStart >= TRANSITION_MS)
    => ~ledStrips.transActive

\* a frame update 667 ms after an expression change that came before the
\* first activation returned at once: the transition is still active
UnactivatedTransitionStaysActive ==
    /\ LedCalled("ledStripsUpdate")
    /\ ~LedWas.ready
    /\ LedWas.transActive
    /\ LedWas.targetFace = 1
    /\ now - LedWas.transStart >= TRANSITION_MS
    /\ ledStrips.transActive
    /\ ~ledStrips.wrote

\* ------------------------------------------------------------------------
\* Saving the menu
\* ------------------------------------------------------------------------
\* how many elements of the sequence s satisfy the test
HowMany(s, Test(_)) == Cardinality({i \in DOMAIN s : Test(s[i])})

IsMenuSave(m) == m[1] = TOPIC_MENU_SAVE
IsSaveCommand(line) == line = <<83, 65, 86, 69, CH_RETURN, CH_NEWLINE>>
IsSavedFrame(frame) == frame = ExpectedFrame(TOPIC_MENU_SAVED, <<116, 114, 117, 101>>)
IsSavedLine(line) == Len(line) >= 8 /\ SubSeq(line, 1, 8) = <<79, 75, 32, 83, 65, 86, 69, 68>>

\* C32: each host 'menu save' message forwards one SAVE command to the
\* companion device and publishes nothing by itself; the saved
\* acknowledgement goes to the host once for each companion-device line
\* OK SAVED and for nothing else; neither step changes MenuState.
SaveForwardedAckOnLine ==
    /\ consumed.link = "host"
       => /\ HowMany(serial1Tx, IsSaveCommand) = HowMany(routed, IsMenuSave)
          /\ (\A i \in DOMAIN routed : IsMenuSave(routed[i]))
             => /\ serialTx = <<>>
                /\ Len(serial1Tx) = Len(routed)
                /\ teensyMenu = consumed.was.teensyMenu
    /\ consumed.link \in {"host", "teensy"}
       => HowMany(serialTx, IsSavedFrame) = HowMany(delivered, IsSavedLine)
    /\ (consumed.link = "teensy" /\ \A i \in DOMAIN delivered : IsSavedLine(delivered[i]))
       => /\ serial1Tx = <<>>
          /\ teensyMenu = consumed.was.teensyMenu

\* the line OK SAVED was read: the acknowledgement was published once and
\* nothing was sent to the companion device
SavedAcknowledgedOnce ==
    /\ consumed.link = "teensy"
    /\ delivered = <<TXT_OK_SAVED>>
    /\ HowMany(serialTx, IsSavedFrame) = 1
    /\ serialTx[2] = ExpectedFrame(TOPIC_MENU_SAVED, TXT_TRUE)
    /\ serial1Tx = <<>>
    /\ teensyMenu = consumed.was.teensyMenu

\* ------------------------------------------------------------------------
\* The fan: the host's fan messages, fan-curve configurations well formed
\* and malformed, the restart, and the loop's sensor update with its
\* automatic fan control once a second (main.cpp:106-122).
\* ------------------------------------------------------------------------
\* "{"temperature":"
TXT_CURVE_TRUNCATED == <<123, 34, 116, 101, 109, 112, 101, 114, 97, 116, 117, 114, 101, 34, 58>>
\* "{"temperature":5}"
TXT_CURVE_TEMPERATURE_NUMBER == <<123, 34, 116, 101, 109, 112, 101, 114, 97, 116, 117, 114, 101, 34, 58, 53, 125>>
\* "{"humidity":"x"}"
TXT_CURVE_HUMIDITY_TEXT == <<123, 34, 104, 117, 109, 105, 100, 105, 116, 121, 34, 58, 34, 120, 34, 125>>

\* payloads that do not parse, or whose temperature or humidity is no list
MalformedCurveConfigs ==
    {TXT_CURVE_TRUNCATED, TXT_CURVE_TEMPERATURE_NUMBER, TXT_CURVE_HUMIDITY_TEXT}

FanMessages ==
    {<<TOPIC_SET_FAN, TXT_75>>, <<TOPIC_SET_FAN, TXT_150>>,
     <<TOPIC_SET_FANMODE, TXT_AUTO>>, <<TOPIC_SET_FANMODE, TXT_MANUAL>>,
     <<TOPIC_CONFIG_FANCURVE, TXT_CURVE_CONFIG>>,
     <<TOPIC_RESTART, <<>>>>}
    \cup {<<TOPIC_CONFIG_FANCURVE, p>> : p \in MalformedCurveConfigs}

\* what the sensor returns: no number, or a temperature and a humidity
SensorReadings ==
    {[isNan |-> TRUE, temperature |-> 0, humidity |-> 0],
     [isNan |-> FALSE, temperature |-> 40, humidity |-> 10]}

\* the loop's sensor update, due a second after the last one: the sensor is
\* read and, in automatic mode, the fan is set from the curves
SENSOR_UPDATE_MS == 1000

\* a sensor update that sets the fan from the curves in manual mode too
loopSensorUpdateAnyMode(reading) ==
    /\ running
    /\ now - lastSensorUpdate >= SENSOR_UPDATE_MS
    /\ sensors' = sensorsUpdate(sensors, reading)
    /\ fanSpeedPercent' =
         fanSetSpeed(fanCurveCalculate(config, sensors'.temperature, sensors'.humidity))
    /\ lastSensorUpdate' = now
    /\ consumed' = Step("loop", <<>>, World)
    /\ UNCHANGED <<serialRx, serialTx, serial1Rx, serial1Tx, inputBuffer, piAlive,
                   lastPiHeartbeat, teensyMenu, teensyInputBuffer, config, prefs,
                   ledStrips, running, now, routed, delivered, lineCut, heard,
                   calls, sends, computed>>

loopSensorUpdate(reading) ==
    /\ running
    /\ now - lastSensorUpdate >= SENSOR_UPDATE_MS
    /\ sensors' = sensorsUpdate(sensors, reading)
    /\ fanSpeedPercent' =
         IF config.autoMode
         THEN fanSetSpeed(fanCurveCalculate(config, sensors'.temperature, sensors'.humidity))
         ELSE fanSpeedPercent
    /\ lastSensorUpdate' = now
    /\ consumed' = Step("loop", <<>>, World)
    /\ UNCHANGED <<serialRx, serialTx, serial1Rx, serial1Tx, inputBuffer, piAlive,
                   lastPiHeartbeat, teensyMenu, teensyInputBuffer, config, prefs,
                   ledStrips, running, now, routed, delivered, lineCut, heard,
                   calls, sends, computed>>

\* the clock of the fan specification runs up to this many milliseconds
MaxFanNow == 1000
FanSteps == {1000}

FanPass(d) ==
    /\ now + d <= MaxFanNow
    /\ now' = now + d
    /\ consumed' = Step("none", <<>>, World)
    /\ UNCHANGED <<serialRx, serial1Rx, sends, computed>>
    /\ UNCHANGED firmwareVars

HostSendFan == \E m \in FanMessages : HostSend(HostFrame(m[1], m[2]))
LoopSensors == \E reading \in SensorReadings : loopSensorUpdate(reading)
FanTimePasses == \E d \in FanSteps : FanPass(d)

NextFan ==
    \/ HostSendFan
    \/ ProcessHost
    \/ LoopSensors
    \/ FanTimePasses
    \/ setup

SpecFan == Init /\ [][NextFan]_vars

IsMalformedCurveConfig(m) == m[1] = TOPIC_CONFIG_FANCURVE /\ m[2] \in MalformedCurveConfigs

\* C33: a fan-curve configuration message whose payload is malformed (it
\* does not parse, or its temperature or humidity is no list of points)
\* leaves the fan-curve configuration as it was, saves nothing and
\* publishes nothing.
MalformedCurveConfigIgnored ==
    (/\ consumed.link = "host"
     /\ Len(routed) = 1
     /\ IsMalformedCurveConfig(routed[1]))
    => /\ config = consumed.was.config
       /\ prefs = consumed.was.prefs
       /\ serialTx = <<>>

\* {"temperature":5} was routed: the temperature curve, the default one
\* before, is empty, the emptied configuration is saved and published
NumberEmptiesTemperatureCurve ==
    /\ consumed.link = "host"
    /\ routed = <<<<TOPIC_CONFIG_FANCURVE, TXT_CURVE_TEMPERATURE_NUMBER>>>>
    /\ consumed.was.config = FanCurveDefaults
    /\ FanCurveDefaults.temperatureCurveSize > 0
    /\ config.temperatureCurveSize = 0
    /\ prefs = fanCurveSave(config)
    /\ prefs # consumed.was.prefs
    /\ serialTx = <<ExpectedFrame(TOPIC_STATUS_FANCURVE, fanCurveConfigToJson(config))>>

\* ------------------------------------------------------------------------
\* The two lookups of the parameter table (mqtt_bridge.cpp:111-125), each
\* called on its own with names that are registered, that differ from a
\* registered one in case only, and that are one character shorter or longer
\* than a registered one.
\* ------------------------------------------------------------------------
toLowerChar(c) == IF c >= 65 /\ c <= 90 THEN c + 32 ELSE c
toLowerCase(s) == [i \in 1..Len(s) |-> toLowerChar(s[i])]
capitalised(s) == [i \in 1..Len(s) |-> IF i = 1 THEN toUpperChar(s[i]) ELSE s[i]]

\* the letter appended to a name to make it one character too long: "S", "s"
EXTRA_UPPER == <<83>>
EXTRA_LOWER == <<115>>

NamesNear(name) ==
    {name, toLowerCase(name), toUpperCase(name), capitalised(name),
     SubSeq(name, 1, Len(name) - 1), name \o EXTRA_UPPER,
     toLowerCase(name) \o EXTRA_LOWER}

LookupNames ==
    UNION {NamesNear(paramMap[i].camel) \cup NamesNear(paramMap[i].proto) : i \in 1..paramMapSize}

ApplyFindByCamel(name) ==
    /\ computed' = Computed("findByCamel", name, findByCamel(name))
    /\ UNCHANGED firmwareAndLinks

ApplyFindByProto(name) ==
    /\ computed' = Computed("findByProto", name, findByProto(name))
    /\ UNCHANGED firmwareAndLinks

LookupByCamel == \E name \in LookupNames : ApplyFindByCamel(name)
LookupByProto == \E name \in LookupNames : ApplyFindByProto(name)

NextLookup ==
    \/ LookupByCamel
    \/ LookupByProto

SpecLookup == Init /\ [][NextLookup]_vars

\* the two names have the same length and the same letters, case apart
SameLettersAnyCase(a, b) ==
    /\ Len(a) = Len(b)
    /\ \A i \in 1..Len(a) : toLowerChar(a[i]) = toLowerChar(b[i])

FirstOrNone(S) == IF S = {} THEN 0 ELSE CHOOSE i \in S : \A j \in S : i <= j

\* C34: the lookup by internal token finds the entry whose token is the name
\* whatever the case of its letters, the lookup by external name the entry
\* whose name is the name letter for letter; color and COLOR find the same
\* entry by token, Color finds none by name, and a name that is a prefix or
\* an extension of a registered one finds nothing unless it is itself registered.
LookupCaseRules ==
    /\ computed.fn = "findByProto"
       => /\ computed.out = FirstOrNone({i \in 1..paramMapSize :
                                SameLettersAnyCase(computed.arg, paramMap[i].proto)})
          /\ computed.arg \in {PROTO_COLOR, PROTO_LOWER_COLOR}
             => (computed.out > 0 /\ paramMap[computed.out].camel = NAME_COLOR)
    /\ computed.fn = "findByCamel"
       => /\ computed.out = FirstOrNone({i \in 1..paramMapSize : computed.arg = paramMap[i].camel})
          /\ computed.arg = NAME_UNKNOWN => computed.out = 0

\* the token written color finds the entry of COLOR
LowerCaseTokenFound ==
    /\ computed.fn = "findByProto"
    /\ computed.arg = PROTO_LOWER_COLOR
    /\ computed.out > 0
    /\ paramMap[computed.out].proto = PROTO_COLOR

\* ------------------------------------------------------------------------
\* The value forwarded and the value stored
\* ------------------------------------------------------------------------
\* the command SET <token> <value> as it is written to the companion link
SetCommandLine(i, value) ==
    <<83, 69, 84, 32>> \o paramMap[i].proto \o <<CH_SPACE>> \o intToStr(value)
        \o <<CH_RETURN, CH_NEWLINE>>

\* C35: after a "menu set" message of a registered parameter, whatever the
\* integer value, the command forwarded to the companion device carries the
\* value that MenuState holds for the parameter.
ForwardedValueIsStored ==
    \A i \in 1..paramMapSize : \A v \in MenuSetValues :
        (/\ consumed.link = "host"
         /\ routed = <<<<TOPIC_MENU_SET, menuSetPayload(paramMap[i].camel, v)>>>>)
        => serial1Tx = <<SetCommandLine(i, teensyMenu[paramMap[i].field])>>

\* face was set to 300: the command forwarded says 300, MenuState holds 44
ForwardedAndStoredDiffer ==
    /\ consumed.link = "host"
    /\ routed = <<<<TOPIC_MENU_SET, menuSetPayload(NAME_FACE, 300)>>>>
    /\ teensyMenu.face = 44
    /\ serial1Tx = <<SetCommandLine(findByCamel(NAME_FACE), 300)>>

\* ------------------------------------------------------------------------
\* The engine's target and MenuState
\* ------------------------------------------------------------------------
CappedBrightness(bright) == IF bright > MAX_BRIGHTNESS THEN MAX_BRIGHTNESS ELSE bright

\* C36: after every host message and every companion-device line processed,
\* the engine's target is the view of MenuState: its colour mode, front hue,
\* back hue and expression are those of MenuState, its brightness the
\* brightness of MenuState capped at MAX_BRIGHTNESS.
TargetIsMenuView ==
    consumed.link \in {"host", "teensy"}
    => /\ ledStrips.targetColor = teensyMenu.color
       /\ ledStrips.targetHueF = teensyMenu.hueF
       /\ ledStrips.targetHueB = teensyMenu.hueB
       /\ ledStrips.targetFace = teensyMenu.face
       /\ ledStrips.targetBright = CappedBrightness(teensyMenu.bright)

\* the host set bright to 254: MenuState holds 254, the target is capped
BrightTargetCapped ==
    /\ consumed.link = "host"
    /\ routed = <<<<TOPIC_MENU_SET, menuSetPayload(NAME_BRIGHT, 254)>>>>
    /\ teensyMenu.bright = 254
    /\ consumed.was.teensyMenu.bright # 254
    /\ ledStrips.targetBright = MAX_BRIGHTNESS

\* ------------------------------------------------------------------------
\* The brightness limit
\* ------------------------------------------------------------------------
\* C37: whatever the retargets and updates, and whatever brightness is
\* asked for, the brightness written to the strips never exceeds
\* MAX_BRIGHTNESS, on the frames of a transition as on any other.
BrightnessNeverAboveMax ==
    /\ ledStrips.shown.bright <= MAX_BRIGHTNESS
    /\ ledStrips.outputBright <= MAX_BRIGHTNESS
    /\ ledStrips.targetBright <= MAX_BRIGHTNESS

\* brightness 200 was asked for at brightness 75: the frame written half way
\* through the transition has a brightness above 75 and below the limit
FadeUpBelowMax ==
    /\ LedCalled("ledStripsUpdate")
    /\ LedWas.transActive
    /\ ledStrips.transActive
    /\ ledStrips.wrote
    /\ ledStrips.transFromBright = 75
    /\ ledStrips.transToBright = MAX_BRIGHTNESS
    /\ ledStrips.shown.bright > 75
    /\ ledStrips.shown.bright < MAX_BRIGHTNESS

\* ------------------------------------------------------------------------
\* A change during a transition
\* ------------------------------------------------------------------------
\* the step taken last was a retarget call that changed an animation input
\* and found a transition active
RetargetInFlight ==
    /\ \/ LedCalled("ledStripsSetColor")
       \/ LedCalled("ledStripsSetBooped")
       \/ LedCalled("ledStripsSetFace")
    /\ RetargetChanged
    /\ LedWas.transActive

\* the transition of L starts from what L displays
StartsFromDisplayed(L) ==
    /\ SnapshotStrips(L) = L.shown.leds
    /\ L.transFromBright = L.shown.bright

\* C38: a change that arrives while a transition is active restarts the
\* crossfade from what is displayed: the snapshot is the frame written last,
\* fromBrightness the brightness written last and the start is now; the
\* frame of such a transition at elapsed time 0 is the frame displayed.
ChangeInFlightRestarts ==
    /\ RetargetInFlight
       => /\ ledStrips.transActive
          /\ ledStrips.transStart = now
          /\ StartsFromDisplayed(ledStrips)
          /\ ledStrips.shown = LedWas.shown
    /\ (/\ LedCalled("ledStripsUpdate")
        /\ LedWas.ready
        /\ LedWas.transActive
        /\ LedWas.transStart = now
        /\ StartsFromDisplayed(LedWas))
       => ledStrips.shown = LedWas.shown

\* the first colour target arrived 333 ms or more after an expression change
\* made before the activation: the transition of the expression change is
\* still active with its old start
ActivationKeepsOldTransition ==
    /\ LedCalled("ledStripsSetColor")
    /\ RetargetInFlight
    /\ ~LedWas.ready
    /\ ledStrips.ready
    /\ ledStrips.transActive
    /\ ledStrips.transStart = LedWas.transStart
    /\ now - ledStrips.transStart >= 333
    /\ ledStrips.shown # LedWas.shown

\* ------------------------------------------------------------------------
\* Lines and dispatches: both links receive chunks of one line, of several
\* lines, of parts of a line and of empty lines; the host link also frames
\* whose checksum is right but whose body has no separator or no topic.
\* ------------------------------------------------------------------------
\* the line of the host with this body and the checksum of the body
SealedLine(data) ==
    <<MSG_FROM_PI>> \o data \o <<MSG_CRC_DELIM>>
    \o <<hexChars[(crc8(data) \div 16) + 1], hexChars[(crc8(data) % 16) + 1]>>
    \o <<CH_NEWLINE>>

\* "tp"
BODY_NO_SEPARATOR == <<116, 112>>
\* "\tp"
BODY_EMPTY_TOPIC == <<9, 112>>

FRAME_P == HostFrame(LINK_TOPIC, PAY_P)
FRAME_FAN == HostFrame(TOPIC_SET_FAN, TXT_75)
FRAME_RETURN == SubSeq(FRAME_P, 1, Len(FRAME_P) - 1) \o <<CH_RETURN, CH_NEWLINE>>

HostLineChunks ==
    {FRAME_P, FRAME_FAN, FRAME_RETURN,
     FRAME_P \o FRAME_FAN, FRAME_FAN \o FRAME_P, FRAME_P \o FRAME_P,
     SealedLine(BODY_NO_SEPARATOR), SealedLine(BODY_EMPTY_TOPIC),
     SealedLine(BODY_NO_SEPARATOR) \o FRAME_P,
     FRAME_FAN \o SealedLine(BODY_EMPTY_TOPIC),
     PART_HEAD, PART_TAIL, LINE_EMPTY, LINE_RETURN_ONLY,
     LINE_EMPTY \o FRAME_P \o PART_HEAD}

\* "OK SA"
PART_SAVED_HEAD == <<79, 75, 32, 83, 65>>
\* "VED\n"
PART_SAVED_TAIL == <<86, 69, 68, 10>>

TeensyLineChunks ==
    {TeensyLineBytes(TXT_OK_SAVED), TeensyLineBytes(TXT_JUNK_LINE),
     TeensyLineBytes(TXT_OK_SAVED) \o TeensyLineBytes(TXT_OK_SAVED),
     TeensyLineBytes(TXT_JUNK_LINE) \o TeensyLineBytes(TXT_OK_SAVED),
     TeensyLineBytes(TXT_OK_SAVED) \o TeensyLineBytes(TXT_JUNK_LINE),
     TXT_JUNK_LINE \o <<CH_RETURN, CH_NEWLINE>>,
     PART_SAVED_HEAD, PART_SAVED_TAIL, LINE_EMPTY, LINE_RETURN_ONLY,
     LINE_EMPTY \o TeensyLineBytes(TXT_OK_SAVED) \o PART_SAVED_HEAD}

HostSendLines == \E chunk \in HostLineChunks : HostSend(chunk)
TeensySendLines == \E chunk \in TeensyLineChunks : TeensySend(chunk)

NextLines ==
    \/ HostSendLines
    \/ TeensySendLines
    \/ ProcessHost
    \/ ProcessTeensy

SpecLines == Init /\ [][NextLines]_vars

\* what the buffer held followed by the bytes read, carriage returns left out
TextRead(buffer, bytes) == buffer \o SelectSeq(bytes, LAMBDA c : c # CH_RETURN)

\* the lines of the text that a newline ends, in order
LinesEnded(text) ==
    LET ends == {i \in 1..Len(text) : text[i] = CH_NEWLINE}
        nth(k) == CHOOSE p \in ends : Cardinality({q \in ends : q <= p}) = k
        before(p) == IF \E q \in ends : q < p
                     THEN CHOOSE q \in ends : q < p /\ \A r \in ends : r < p => r <= q
                     ELSE 0
    IN  [k \in 1..Cardinality(ends) |-> SubSeq(text, before(nth(k)) + 1, nth(k) - 1)]

\* the line is a frame of the host that the Router is to get: marker, a body
\* with a separator after a non-empty topic, the delimiter and the checksum
\* of the body in two upper-case hexadecimal digits
IsDispatchable(line) ==
    /\ Len(line) >= 5
    /\ line[1] = MSG_FROM_PI
    /\ line[Len(line) - 2] = MSG_CRC_DELIM
    /\ line[Len(line) - 1] # MSG_CRC_DELIM /\ line[Len(line)] # MSG_CRC_DELIM
    /\ LET data == SubSeq(line, 2, Len(line) - 3)
           crc == crc8Reference(data)
       IN  /\ SubSeq(line, Len(line) - 1, Len(line))
                = <<UpperHexDigit(crc \div 16), UpperHexDigit(crc % 16)>>
           /\ \E i \in 2..Len(data) : data[i] = MSG_SEPARATOR
           /\ data[1] # MSG_SEPARATOR

\* (topic, payload) of a dispatchable line
MessageOf(line) ==
    LET data == SubSeq(line, 2, Len(line) - 3)
        sep == FirstSeparator(data)
    IN  <<SubSeq(data, 1, sep - 1), SubSeq(data, sep + 1, Len(data))>>

IsNotEmpty(line) == line # <<>>

\* C39: on both links every line ended by a newline is dispatched at most
\* once and in the order of arrival: the Router gets the message of each
\* accepted frame of the host link once, the handler of the companion link
\* each line that is not empty once; a frame whose checksum is right but
\* whose body has no separator or no topic is not dispatched and does not
\* mark the host alive.
LinesDispatchedOnceInOrder ==
    /\ consumed.link = "host"
       => LET frames == SelectSeq(LinesEnded(TextRead(consumed.was.inputBuffer, consumed.bytes)),
                                  IsDispatchable)
          IN  /\ routed = [k \in 1..Len(frames) |-> MessageOf(frames[k])]
              /\ routed = <<>> => /\ piAlive = consumed.was.piAlive
                                  /\ lastPiHeartbeat = consumed.was.lastPiHeartbeat
    /\ consumed.link = "teensy"
       => delivered = SelectSeq(LinesEnded(TextRead(consumed.was.teensyInputBuffer,
                                                    consumed.bytes)),
                                IsNotEmpty)

\* a frame without topic and a fan message arrived together: the Router got
\* the fan message only
EmptyTopicFrameSkipped ==
    /\ consumed.link = "host"
    /\ consumed.bytes = FRAME_FAN \o SealedLine(BODY_EMPTY_TOPIC)
    /\ routed = <<<<TOPIC_SET_FAN, TXT_75>>>>
    /\ fanSpeedPercent = 75

\* ------------------------------------------------------------------------
\* The fan speed the host asked for
\* ------------------------------------------------------------------------
\* the step taken last was a host step that routed one message of this topic
RoutedTopic(topic) ==
    /\ consumed.link = "host"
    /\ Len(routed) = 1
    /\ routed[1][1] = topic

\* the step taken last was the reboot
Rebooted == consumed.link = "none" /\ ~consumed.was.running /\ running

SpeedChanged == fanSpeedPercent # consumed.was.fanSpeedPercent
AutoSwitchedOn == config.autoMode /\ ~consumed.was.config.autoMode

\* a fan-curve configuration whose mode is auto
SelectsAuto(payload) == payload = TXT_CURVE_CONFIG

\* a "set fan speed" message leaves the speed asked for, clamped, and the
\* manual mode
SpeedSetAsAsked ==
    \A a \in FanSpeedsAsked :
        (consumed.link = "host" /\ routed = <<<<TOPIC_SET_FAN, a[1]>>>>)
        => fanSpeedPercent = a[3] /\ ~config.autoMode

\* the automatic mode is switched on by a fan mode message that says auto or
\* by a fan-curve configuration that says auto, and by nothing else
AutoOnlyWhenSelected ==
    AutoSwitchedOn
    => \/ RoutedTopic(TOPIC_SET_FANMODE) /\ routed[1][2] = TXT_AUTO
       \/ RoutedTopic(TOPIC_CONFIG_FANCURVE) /\ SelectsAuto(routed[1][2])

\* C40 as stated: the speed set by a "set fan speed" message stays until
\* another fan speed message, a fan mode message selecting auto or a
\* fan-curve configuration selecting auto; the sensor update of the loop
\* changes it in automatic mode only.
FanSpeedKeptUntilAsked ==
    /\ SpeedSetAsAsked
    /\ AutoOnlyWhenSelected
    /\ SpeedChanged
       => \/ RoutedTopic(TOPIC_SET_FAN)
          \/ consumed.link = "loop" /\ consumed.was.config.autoMode

\* C40, amended: the same, until one of these messages or the restart of
\* the chip, which sets the speed to 50 and keeps the mode.
FanSpeedKeptUntilAskedOrRestart ==
    /\ SpeedSetAsAsked
    /\ AutoOnlyWhenSelected
    /\ SpeedChanged
       => \/ RoutedTopic(TOPIC_SET_FAN)
          \/ consumed.link = "loop" /\ consumed.was.config.autoMode
          \/ Rebooted /\ fanSpeedPercent = 50
    /\ Rebooted => config.autoMode = consumed.was.config.autoMode

\* the sensor update ran in manual mode after the host asked for 150: the
\* fan stays at 100 though the curves give another speed for the reading
ManualSpeedSurvivesSensorUpdate ==
    /\ consumed.link = "loop"
    /\ ~config.autoMode
    /\ fanSpeedPercent = 100
    /\ sensors.temperature = 40
    /\ fanSetSpeed(fanCurveCalculate(config, sensors.temperature, sensors.humidity)) # 100

====
